---- MODULE Spec2Model ----
(***************************************************************************)
(* A model of the Actor inspector agent (apify/actor-inspector-agent):     *)
(* the pipeline driver main(), the agent/tool bindings of agents.py and    *)
(* agents2.py, and the context adapters of tools.py / tools_2.py with the  *)
(* helpers of utils.py.                                                    *)
(*                                                                         *)
(* Conventions.                                                            *)
(*  - A Python dict is a TLA+ function; d.get(k) is Get(d, k).             *)
(*  - Python None is the value None; "" is the empty string.               *)
(*  - A call that may raise returns a record [exc, val, net]: the          *)
(*    exception raised ("none" when it returns), the value returned, and   *)
(*    the external requests it issued, in order.                           *)
(*  - Calls are resolved by name: main.py and tools.py pass an ApifyClient *)
(*    as an extra first argument to the helpers of utils.py, which build   *)
(*    their own client from the token; the helpers are modelled by their   *)
(*    bodies in utils.py, applied to the actor name.  Likewise the names   *)
(*    GetActorCodeTool / GetActorInputSchemaTool / create_actor_quality_   *)
(*    agent used by agents.py and main.py denote tool_get_code_context /   *)
(*    tool_get_actor_input_schema / create_actor_definition_quality_agent. *)
(***************************************************************************)
EXTENDS Integers, Sequences, FiniteSets, TLC

VARIABLES
    APIFY_TOKEN,          \* os.getenv('APIFY_TOKEN'): "" when unset or empty
    platform,             \* what the external services answer (fixed per run)
    now,                  \* datetime.now(UTC), as an integer instant
    \* ---- main() ----
    actor_input,          \* what Actor.get_input() returns
    pc,                   \* position of main()
    error,                \* the exception main() ended with ("none" if none)
    net,                  \* external requests issued by main(), in order
    actor_id,
    github_repo_url,
    code_quality_remark,
    agents,               \* agent variable of main() -> Agent object
    tasks,                \* task variable of main() -> Task object
    crew,                 \* the Crew object
    outputs,              \* task -> its output (NoOutput until executed)
    started,              \* tasks the crew has started, in order
    idx,                  \* crew.kickoff(): index of the next task
    active,               \* the agent acting now (None outside a task)
    calls,                \* <<agent, tool, exception>> of the tool calls made so far
    dataset,              \* records pushed with Actor.push_data
    \* ---- one tool invocation ----
    tool,                 \* the tool that ran ("idle" before)
    result                \* what it returned or raised

worldVars == <<APIFY_TOKEN, platform, now>>
mainVars == <<actor_input, pc, error, net, actor_id, github_repo_url,
              code_quality_remark, agents, tasks, crew, outputs, started,
              idx, active, calls, dataset>>
toolVars == <<tool, result>>
vars == <<worldVars, mainVars, toolVars>>

-----------------------------------------------------------------------------
(* Python values *)

None == "None"

EmptyDict == [k \in {} |-> None]

Get(d, k) == IF k \in DOMAIN d THEN d[k] ELSE None

GetDefault(d, k, dflt) == IF k \in DOMAIN d THEN d[k] ELSE dflt

Truthy(v) == v \notin {None, ""}

\* JSON null where the code expects a dict (build['actorDefinition']: null).
NoneDict == [is_none |-> TRUE]

\* Truth value of a dict-valued entry d[k]: absent, null and {} are falsy.
TruthyDict(d, k) == k \in DOMAIN d /\ d[k] # NoneDict /\ DOMAIN d[k] # {}

Range(s) == {s[i] : i \in DOMAIN s}

Returned(v, requests) == [exc |-> "none", val |-> v, net |-> requests]

Raised(e, requests) == [exc |-> e, val |-> None, net |-> requests]

\* The external call fails in transport: the client raises (requests raises
\* a RequestException, apify_client an ApifyApiError).  plat.down, when given,
\* holds the calls that fail.
Down(plat, call) == "down" \in DOMAIN plat /\ call \in plat.down

-----------------------------------------------------------------------------
(* utils.py *)

get_apify_token_unchecked(env) == Returned(env, <<>>)

\* get_apify_token: the token, or ValueError when the variable is unset/empty.
get_apify_token(env) ==
    IF env = "" THEN Raised("ValueError: APIFY_TOKEN environment variable is not set", <<>>)
    ELSE Returned(env, <<>>)

get_actor_id_unchecked(env, plat, actor_name) ==
    LET tok == get_apify_token(env) IN
    IF tok.exc # "none" THEN tok
    ELSE Returned(Get(plat.actor.d, "id"),
                  <<[call |-> "actor.get", target |-> actor_name]>>)

\* get_actor_id: apify_client.actor(actor_name).get(), then its 'id'.
get_actor_id(env, plat, actor_name) ==
    LET tok == get_apify_token(env) IN
    IF tok.exc # "none" THEN tok
    ELSE LET req == <<[call |-> "actor.get", target |-> actor_name]>>
             actor == plat.actor
         IN  IF Down(plat, "actor.get") THEN Raised("ApifyApiError: actor.get", req)
             ELSE IF ~actor.found THEN Raised("ValueError: Actor not found", req)
             ELSE IF ~Truthy(Get(actor.d, "id"))
                  THEN Raised("ValueError: Failed to get the Actor object ID", req)
                  ELSE Returned(actor.d["id"], req)

\* response.json() of the build-info request, by the types the code tests:
\* type is the type of the body, keys its keys when it is a dict, data_type
\* the type of body['data'] and data its value when that is a dict.
JsonBody(type, keys, data_type, data) ==
    [type |-> type, keys |-> keys, data_type |-> data_type, data |-> data]

\* A well-formed response: {'data': data}.
BuildResponse(data) == JsonBody("dict", {"data"}, "dict", data)

get_actor_latest_build_any_data(env, plat, actor_name) ==
    LET id == get_actor_id(env, plat, actor_name) IN
    IF id.exc # "none" THEN id
    ELSE LET req == id.net \o <<[call |-> "builds/default", target |-> id.val]>>
             build == plat.build
         IN  IF build.type # "dict"
             THEN Raised("TypeError: Failed to get the latest build", req)
             ELSE IF "data" \notin build.keys \/ build.data_type = "null"
             THEN Raised("ValueError: Failed to get the latest build data", req)
             ELSE Returned(build.data, req)

\* get_actor_latest_build: the 'data' object of the default build's response.
get_actor_latest_build(env, plat, actor_name) ==
    LET id == get_actor_id(env, plat, actor_name) IN
    IF id.exc # "none" THEN id
    ELSE LET req == id.net \o <<[call |-> "builds/default", target |-> id.val]>>
             build == plat.build
         IN  IF Down(plat, "builds/default")
             THEN Raised("ConnectionError: builds/default", req)
             ELSE IF build.type # "dict"
             THEN Raised("TypeError: Failed to get the latest build", req)
             ELSE IF "data" \notin build.keys \/ build.data_type = "null"
             THEN Raised("ValueError: Failed to get the latest build data", req)
             ELSE IF build.data_type # "dict"
             THEN Raised("TypeError: Received invalid data for the latest build", req)
             ELSE Returned(build.data, req)

-----------------------------------------------------------------------------
(* agents.py, agents2.py: the Agent objects.  tools is the list handed to  *)
(* Agent(tools=...), as a set; allow_delegation defaults to FALSE.         *)

Tools == {"tools.GetActorCodeTool", "tools.GetActorInputSchemaTool",
          "tools.GetActorReadmeTool", "tools.SearchRelatedActorsTool",
          "tools.GetActorPricingInfoTool", "tools_2.SearchRelatedActorsTool",
          "tools_2.GetActorPricingInfoTool"}

Agent(role, toolset, delegation) ==
    [role |-> role, tools |-> toolset, allow_delegation |-> delegation]

create_actor_inspector_agent_with_tool ==
    Agent("Lead actor inspector", {"tools.GetActorReadmeTool"}, TRUE)

create_actor_inspector_agent ==
    Agent("Lead actor inspector", {}, TRUE)

create_code_quality_agent_extra_tool ==
    Agent("Code quality specialist",
          {"tools.GetActorCodeTool", "tools.SearchRelatedActorsTool"}, FALSE)

create_code_quality_agent ==
    Agent("Code quality specialist", {"tools.GetActorCodeTool"}, FALSE)

create_actor_definition_quality_agent ==
    Agent("Apify Actor definition evaluator",
          {"tools.GetActorInputSchemaTool", "tools.GetActorReadmeTool"}, FALSE)

agents_create_uniqueness_check_agent ==
    Agent("Apify Actor uniqueness expert",
          {"tools.GetActorReadmeTool", "tools.SearchRelatedActorsTool"}, FALSE)

agents_create_pricing_check_agent ==
    Agent("Apify pricing expert",
          {"tools.GetActorPricingInfoTool", "tools.SearchRelatedActorsTool"}, FALSE)

agents2_create_uniqueness_check_agent ==
    Agent("Apify Actor expert",
          {"tools.GetActorReadmeTool", "tools_2.SearchRelatedActorsTool"}, FALSE)

agents2_create_pricing_check_agent ==
    Agent("Apify Pricing expert",
          {"tools_2.GetActorPricingInfoTool", "tools_2.SearchRelatedActorsTool"}, FALSE)

-----------------------------------------------------------------------------
(* main.py *)

fallback_input == [actorId |-> "apify/rag-web-browser"]

AgentVars == {"inspector_agent", "code_quality_agent", "actor_quality_agent",
              "uniqueness_check_agent", "pricing_check_agent"}

LeafTasks == {"code_quality_task", "actor_quality_task", "uniqueness_task",
              "pricing_task"}

TaskVars == LeafTasks \cup {"final_task"}

NoOutput == "<no output>"

NOT_PROVIDED == "GITHUB REPO URL IS NOT PROVIDED, SKIP ALL CHEKS AND TOOLS THAT REQUIRE IT."

NA_REMARK == "IF THE GITHUB REPO URL IS NOT PROVIDED, GRADE THE CODE QUALITY AS 'N/A'."

\* Task(description=..., agent=..., context=...); context defaults to none.
Task(about, url, remark, agent, context) ==
    [actor |-> about, url |-> url, remark |-> remark, agent |-> agent,
     context |-> context]

final_task_context_missing_pricing ==
    {"code_quality_task", "actor_quality_task", "uniqueness_task"}

\* context=[code_quality_task, actor_quality_task, uniqueness_task, pricing_task]
final_task_context ==
    {"code_quality_task", "actor_quality_task", "uniqueness_task", "pricing_task"}

\* The agents main() creates (lines 67-71) and the imports that bind them.
main_agents ==
    [inspector_agent |-> create_actor_inspector_agent,
     code_quality_agent |-> create_code_quality_agent,
     actor_quality_agent |-> create_actor_definition_quality_agent,
     uniqueness_check_agent |-> agents2_create_uniqueness_check_agent,
     pricing_check_agent |-> agents2_create_pricing_check_agent]

\* The five Task objects main() creates (lines 72-143).
main_tasks(id, url, remark) ==
    [code_quality_task |-> Task(id, url, remark, "code_quality_agent", {}),
     actor_quality_task |-> Task(id, url, "", "actor_quality_agent", {}),
     uniqueness_task |-> Task(id, url, "", "uniqueness_check_agent", {}),
     pricing_task |-> Task(id, url, "", "pricing_check_agent", {}),
     final_task |-> Task(id, url, "", "inspector_agent", final_task_context)]

\* Crew(agents=[...], tasks=[final_task], manager_agent=inspector_agent);
\* the process is the default, sequential one.
main_crew ==
    [agents |-> {"code_quality_agent", "actor_quality_agent",
                 "uniqueness_check_agent", "pricing_check_agent"},
     tasks |-> <<"final_task">>,
     manager_agent |-> "inspector_agent",
     process |-> "sequential"]

NoCrew == [agents |-> {}, tasks |-> <<>>, manager_agent |-> None,
           process |-> "sequential"]

-----------------------------------------------------------------------------
(* The inputs of main() *)

RepoUrl == "https://github.com/acme/foo"

\* What Actor.get_input() may return: nothing, or a dict with or without actorId.
Inputs ==
    {[isNone |-> TRUE, d |-> EmptyDict], [isNone |-> FALSE, d |-> EmptyDict]}
    \cup {[isNone |-> FALSE, d |-> [actorId |-> v]] : v \in {None, "", "acme/foo"}}

\* What the platform answers for the actor lookup: no actor (the client
\* returns None), an actor object without 'id', an actor object with it.
ActorAnswers ==
    {[found |-> FALSE, d |-> EmptyDict],
     [found |-> TRUE, d |-> [name |-> "foo"]],
     [found |-> TRUE, d |-> [name |-> "foo", id |-> "ID1"]]}

\* What the build-info API answers.
BuildAnswers ==
    {JsonBody("list", {}, "none", EmptyDict),
     JsonBody("dict", {}, "none", EmptyDict),
     JsonBody("dict", {"data"}, "null", EmptyDict),
     JsonBody("dict", {"data"}, "str", EmptyDict),
     BuildResponse(EmptyDict),
     BuildResponse([actVersion |-> EmptyDict]),
     BuildResponse([actVersion |-> [gitRepoUrl |-> RepoUrl]])}

IdleTool == /\ tool = "idle"
            /\ result = Returned(None, <<>>)

InitMain ==
    /\ pc = "start"
    /\ error = "none"
    /\ net = <<>>
    /\ actor_id = None
    /\ github_repo_url = None
    /\ code_quality_remark = None
    /\ agents = EmptyDict
    /\ tasks = EmptyDict
    /\ crew = NoCrew
    /\ outputs = EmptyDict
    /\ started = <<>>
    /\ idx = 0
    /\ active = None
    /\ calls = {}
    /\ dataset = <<>>

-----------------------------------------------------------------------------
(* models.py: PricingInfo.  Keys are read by their camelCase alias; a key   *)
(* that is absent leaves the field at its default, None.                    *)

PricingInfo(pricing_model, price_per_unit_usd, trial_minutes) ==
    [pricing_model |-> pricing_model,
     price_per_unit_usd |-> price_per_unit_usd,
     trial_minutes |-> trial_minutes,
     apify_margin_percentage |-> None,
     minimal_max_total_charge_usd |-> None,
     pricing_per_event |-> None]

\* PricingInfo.model_validate(entry) for a dict entry.
PricingInfo_model_validate(entry) ==
    PricingInfo(entry.pricingModel, Get(entry, "pricePerUnitUsd"),
                Get(entry, "trialMinutes"))

NoPricing == [sel |-> FALSE, entry |-> EmptyDict]

-----------------------------------------------------------------------------
(* tools.py and tools_2.py: GetActorPricingInfoTool._run *)

RECURSIVE pricing_loop_assign_first(_, _, _, _)
pricing_loop_assign_first(pricing_info, t, i, current_pricing) ==
    IF i > Len(pricing_info) THEN current_pricing
    ELSE IF pricing_info[i].startedAt > t
         THEN [sel |-> TRUE, entry |-> pricing_info[i]]
         ELSE pricing_loop_assign_first(pricing_info, t, i + 1,
                                        [sel |-> TRUE, entry |-> pricing_info[i]])

\* tools.py lines 210-215: the scan for the current pricing entry.
RECURSIVE pricing_loop(_, _, _, _)
pricing_loop(pricing_info, t, i, current_pricing) ==
    IF i > Len(pricing_info) THEN current_pricing
    ELSE IF pricing_info[i].startedAt > t
         THEN current_pricing
         ELSE pricing_loop(pricing_info, t, i + 1,
                           [sel |-> TRUE, entry |-> pricing_info[i]])

GetActorPricingInfoTool_run_none_only(env, plat, t, actor_name) ==
    LET tok == get_apify_token(env) IN
    IF tok.exc # "none" THEN tok
    ELSE LET req == <<[call |-> "actor.get", target |-> actor_name]>>
             actor == plat.actor
         IN  IF ~actor.found \/ DOMAIN actor.d = {}
             THEN Raised("ValueError: Actor not found", req)
             ELSE IF "pricingInfos" \notin DOMAIN actor.d
             THEN Returned(PricingInfo("PAY_PER_PLATFORM_USAGE", None, None), req)
             ELSE LET current_pricing == pricing_loop(actor.d.pricingInfos, t, 1, NoPricing)
                  IN  IF ~current_pricing.sel
                      THEN Raised("ValidationError: PricingInfo", req)
                      ELSE Returned(PricingInfo_model_validate(current_pricing.entry), req)

\* tools.py lines 199-217.
GetActorPricingInfoTool_run(env, plat, t, actor_name) ==
    LET tok == get_apify_token(env) IN
    IF tok.exc # "none" THEN tok
    ELSE LET req == <<[call |-> "actor.get", target |-> actor_name]>>
             actor == plat.actor
         IN  IF Down(plat, "actor.get") THEN Raised("ApifyApiError: actor.get", req)
             ELSE IF ~actor.found \/ DOMAIN actor.d = {}
             THEN Raised("ValueError: Actor not found", req)
             ELSE IF "pricingInfos" \notin DOMAIN actor.d \/ actor.d.pricingInfos = <<>>
             THEN Returned(PricingInfo("PAY_PER_PLATFORM_USAGE", None, None), req)
             ELSE LET current_pricing == pricing_loop(actor.d.pricingInfos, t, 1, NoPricing)
                  IN  IF ~current_pricing.sel
                      THEN Raised("ValidationError: PricingInfo", req)
                      ELSE Returned(PricingInfo_model_validate(current_pricing.entry), req)

\* tools_2.py lines 81-86: the same scan.
RECURSIVE tools_2_pricing_loop(_, _, _, _)
tools_2_pricing_loop(pricing_info, t, i, current_pricing) ==
    IF i > Len(pricing_info) THEN current_pricing
    ELSE IF pricing_info[i].startedAt > t
         THEN current_pricing
         ELSE tools_2_pricing_loop(pricing_info, t, i + 1,
                                   [sel |-> TRUE, entry |-> pricing_info[i]])

tools_2_GetActorPricingInfoTool_run_default_when_unselected(env, plat, t, actor_name) ==
    LET tok == get_apify_token(env) IN
    IF tok.exc # "none" THEN tok
    ELSE LET req == <<[call |-> "actor.get", target |-> actor_name]>>
             actor == plat.actor
         IN  IF ~actor.found \/ DOMAIN actor.d = {}
             THEN Raised("ValueError: Actor not found", req)
             ELSE IF "pricingInfos" \notin DOMAIN actor.d \/ actor.d.pricingInfos = <<>>
             THEN Returned(PricingInfo("PAY_PER_PLATFORM_USAGE", None, None), req)
             ELSE LET current_pricing ==
                          tools_2_pricing_loop(actor.d.pricingInfos, t, 1, NoPricing)
                  IN  IF ~current_pricing.sel
                      THEN Returned(PricingInfo("PAY_PER_PLATFORM_USAGE", None, None), req)
                      ELSE Returned(PricingInfo_model_validate(current_pricing.entry), req)

\* tools_2.py lines 70-88.
tools_2_GetActorPricingInfoTool_run(env, plat, t, actor_name) ==
    LET tok == get_apify_token(env) IN
    IF tok.exc # "none" THEN tok
    ELSE LET req == <<[call |-> "actor.get", target |-> actor_name]>>
             actor == plat.actor
         IN  IF Down(plat, "actor.get") THEN Raised("ApifyApiError: actor.get", req)
             ELSE IF ~actor.found \/ DOMAIN actor.d = {}
             THEN Raised("ValueError: Actor not found", req)
             ELSE IF "pricingInfos" \notin DOMAIN actor.d \/ actor.d.pricingInfos = <<>>
             THEN Returned(PricingInfo("PAY_PER_PLATFORM_USAGE", None, None), req)
             ELSE LET current_pricing ==
                          tools_2_pricing_loop(actor.d.pricingInfos, t, 1, NoPricing)
                  IN  IF ~current_pricing.sel
                      THEN Raised("ValidationError: PricingInfo", req)
                      ELSE Returned(PricingInfo_model_validate(current_pricing.entry), req)

\* An agent invokes the pricing tool of tools.py.
Invoke_GetActorPricingInfoTool ==
    /\ tool = "idle"
    /\ tool' = "tools.GetActorPricingInfoTool"
    /\ result' = GetActorPricingInfoTool_run(APIFY_TOKEN, platform, now, "acme/foo")
    /\ UNCHANGED <<worldVars, mainVars>>

\* An agent invokes the pricing tool of tools_2.py.
Invoke_tools_2_GetActorPricingInfoTool ==
    /\ tool = "idle"
    /\ tool' = "tools_2.GetActorPricingInfoTool"
    /\ result' = tools_2_GetActorPricingInfoTool_run(APIFY_TOKEN, platform, now,
                                                     "acme/foo")
    /\ UNCHANGED <<worldVars, mainVars>>

-----------------------------------------------------------------------------
(* The invocations of the pricing tool *)

MaxTime == 3

MaxEntries == 2

PricingModels == {"PRICE_PER_DATASET_ITEM", "FLAT_PRICE_PER_MONTH"}

\* A pricing entry of the actor object: its start instant, its model and,
\* for some, a price per unit.
PricingEntries ==
    [startedAt : 1..MaxTime, pricingModel : PricingModels]
    \cup [startedAt : 1..MaxTime, pricingModel : PricingModels,
          pricePerUnitUsd : {"0.5"}]

SeqsUpTo(S, n) == UNION {[1..k -> S] : k \in 0..n}

PricingActors ==
    {[found |-> FALSE, d |-> EmptyDict],
     [found |-> TRUE, d |-> [id |-> "ID1"]]}
    \cup {[found |-> TRUE, d |-> [id |-> "ID1", pricingInfos |-> l]] :
            l \in SeqsUpTo(PricingEntries, MaxEntries)}

OkBuild == BuildResponse(EmptyDict)

IdleMain == /\ actor_input = [isNone |-> TRUE, d |-> EmptyDict]
            /\ InitMain

InitPricing ==
    /\ APIFY_TOKEN \in {"", "apify_api_token"}
    /\ platform \in [actor : PricingActors, build : {OkBuild}]
    /\ now \in 0..MaxTime
    /\ IdleMain
    /\ IdleTool

NextPricing ==
    \/ Invoke_GetActorPricingInfoTool
    \/ Invoke_tools_2_GetActorPricingInfoTool

SpecPricing == InitPricing /\ [][NextPricing]_vars

-----------------------------------------------------------------------------
(* Claims about the pricing adapter *)

PricingRan == tool \in {"tools.GetActorPricingInfoTool",
                        "tools_2.GetActorPricingInfoTool"}

PricingList == GetDefault(platform.actor.d, "pricingInfos", <<>>)

ActorAvailable == APIFY_TOKEN # "" /\ platform.actor.found

Ascending(l) == \A i, j \in DOMAIN l : i < j => l[i].startedAt <= l[j].startedAt

NotFuture(l, t) == {i \in DOMAIN l : l[i].startedAt <= t}

Future(l, t) == {i \in DOMAIN l : l[i].startedAt > t}

Last(S) == CHOOSE i \in S : \A j \in S : j <= i

First(S) == CHOOSE i \in S : \A j \in S : i <= j

\* C6: for a non-empty list of pricing entries ascending by start time, the
\* snapshot returned is that of the last entry whose start time is <= now; in
\* any list the scan stops at the first future-dated entry, so the snapshot is
\* that of the entry just before it.
C6_CurrentPricingIsLastStarted ==
    (PricingRan /\ ActorAvailable /\ PricingList # <<>>) =>
        /\ (Ascending(PricingList) /\ NotFuture(PricingList, now) # {}) =>
              /\ result.exc = "none"
              /\ result.val = PricingInfo_model_validate(
                                  PricingList[Last(NotFuture(PricingList, now))])
        /\ (Future(PricingList, now) # {} /\ First(Future(PricingList, now)) > 1) =>
              /\ result.exc = "none"
              /\ result.val = PricingInfo_model_validate(
                                  PricingList[First(Future(PricingList, now)) - 1])

\* The scenario of C6: an entry started in the past, one dated in the future.
C6_PastAndFutureEntry ==
    /\ PricingRan /\ ActorAvailable
    /\ Len(PricingList) = 2
    /\ PricingList[1].startedAt = 1 /\ PricingList[2].startedAt = 3
    /\ PricingList[1].pricingModel # PricingList[2].pricingModel
    /\ now = 2
    /\ result.exc = "none"
    /\ result.val.pricing_model = PricingList[1].pricingModel

NoPricingEntries == PricingRan /\ ActorAvailable /\ PricingList = <<>>

OptionalFieldsAbsent(info) ==
    /\ info.price_per_unit_usd = None
    /\ info.trial_minutes = None
    /\ info.apify_margin_percentage = None
    /\ info.minimal_max_total_charge_usd = None
    /\ info.pricing_per_event = None

\* C7 as stated: without explicit pricing entries the snapshot's pricing model
\* is PAY_PER_USAGE and its optional fields are absent.
C7_DefaultIsPayPerUsage ==
    NoPricingEntries =>
        /\ result.exc = "none"
        /\ result.val.pricing_model = "PAY_PER_USAGE"
        /\ OptionalFieldsAbsent(result.val)

\* C7 as amended: without explicit pricing entries (pricingInfos absent or
\* empty) the snapshot's pricing model is PAY_PER_PLATFORM_USAGE and its
\* optional fields are absent.
C7_DefaultIsPayPerPlatformUsage ==
    NoPricingEntries =>
        /\ result.exc = "none"
        /\ result.val.pricing_model = "PAY_PER_PLATFORM_USAGE"
        /\ OptionalFieldsAbsent(result.val)

C7_EmptyPricingList ==
    /\ NoPricingEntries
    /\ "pricingInfos" \in DOMAIN platform.actor.d
    /\ tool = "tools.GetActorPricingInfoTool"

\* C25: when the list of pricing entries is non-empty and its first entry is
\* dated in the future, no entry is selected and the pricing tool raises the
\* validation error of PricingInfo; it never returns the default snapshot in
\* that case.  A snapshot that is returned for a non-empty list is that of an
\* entry whose start time is <= now.
C25_FutureFirstEntryRaises ==
    (PricingRan /\ ActorAvailable /\ PricingList # <<>>) =>
        /\ PricingList[1].startedAt > now =>
              /\ result.exc = "ValidationError: PricingInfo"
              /\ result.val = None
        /\ result.exc = "none" =>
              \E i \in NotFuture(PricingList, now) :
                  result.val = PricingInfo_model_validate(PricingList[i])

\* The scenario of C25: two entries, both dated after now, and the error.
C25_AllEntriesInFuture ==
    /\ PricingRan /\ ActorAvailable
    /\ Len(PricingList) = 2
    /\ now = 1
    /\ PricingList[1].startedAt = 2 /\ PricingList[2].startedAt = 3
    /\ result.exc = "ValidationError: PricingInfo"

-----------------------------------------------------------------------------
(* models.py: ActorInputProperty, ActorInputDefinition.  A required str     *)
(* field that is missing or None fails validation; other keys are ignored.  *)

IsStr(d, k) == k \in DOMAIN d /\ d[k] # None

ActorInputProperty_valid(prop) ==
    /\ IsStr(prop, "title")
    /\ IsStr(prop, "description")
    /\ IsStr(prop, "type")
    /\ "default" \in DOMAIN prop

ActorInputProperty(prop) ==
    [title |-> prop.title, description |-> prop.description,
     type |-> prop.type, default |-> prop.default]

-----------------------------------------------------------------------------
(* tools.py: tool_get_actor_input_schema *)

SCHEMA_NOT_AVAILABLE == "Actor input schema is not available."

Str(v) == [type |-> "str", value |-> v]

effective_default_prefers_default(prop) ==
    GetDefault(prop, "default", Get(prop, "prefill"))

\* Line 81: prop.get('prefill', prop.get('default')).
effective_default(prop) ==
    GetDefault(prop, "prefill", Get(prop, "default"))

\* Line 81: prop['default'] = ...; the dict with the key set.
with_effective_default(prop) ==
    [k \in DOMAIN prop \cup {"default"} |->
        IF k = "default" THEN effective_default(prop) ELSE prop[k]]

tool_get_actor_input_schema_requires_input(env, plat, actor_name) ==
    LET tok == get_apify_token(env)
        build == get_actor_latest_build(env, plat, actor_name)
    IN  IF tok.exc # "none" THEN tok
        ELSE IF build.exc # "none" THEN build
        ELSE IF ~TruthyDict(build.val, "actorDefinition")
        THEN Raised("ValueError: Actor definition not found in the Actor build",
                    build.net)
        ELSE LET actor_definition == build.val.actorDefinition IN
             IF ~TruthyDict(actor_definition, "input")
             THEN Raised("ValueError: Actor definition not found in the Actor build",
                         build.net)
             ELSE LET actor_input_schema == actor_definition.input
                      props == GetDefault(actor_input_schema, "properties", EmptyDict)
                      set == [n \in DOMAIN props |-> with_effective_default(props[n])]
                  IN  IF \E n \in DOMAIN set : ~ActorInputProperty_valid(set[n])
                      THEN Raised("ValidationError: ActorInputProperty", build.net)
                      ELSE IF ~IsStr(actor_definition, "title")
                              \/ ~IsStr(actor_definition, "description")
                      THEN Raised("ValidationError: ActorInputDefinition", build.net)
                      ELSE Returned(
                             [type |-> "ActorInputDefinition",
                              title |-> actor_definition.title,
                              description |-> actor_definition.description,
                              properties |->
                                 [n \in DOMAIN set |-> ActorInputProperty(set[n])]],
                             build.net)

\* Lines 55-89.
tool_get_actor_input_schema(env, plat, actor_name) ==
    LET tok == get_apify_token(env)
        build == get_actor_latest_build(env, plat, actor_name)
    IN  IF tok.exc # "none" THEN tok
        ELSE IF build.exc # "none" THEN build
        ELSE IF ~TruthyDict(build.val, "actorDefinition")
        THEN Raised("ValueError: Actor definition not found in the Actor build",
                    build.net)
        ELSE LET actor_definition == build.val.actorDefinition IN
             IF ~TruthyDict(actor_definition, "input")
             THEN Returned(Str(SCHEMA_NOT_AVAILABLE), build.net)
             ELSE LET actor_input_schema == actor_definition.input
                      props == GetDefault(actor_input_schema, "properties", EmptyDict)
                      set == [n \in DOMAIN props |-> with_effective_default(props[n])]
                  IN  IF \E n \in DOMAIN set : ~ActorInputProperty_valid(set[n])
                      THEN Raised("ValidationError: ActorInputProperty", build.net)
                      ELSE IF ~IsStr(actor_definition, "title")
                              \/ ~IsStr(actor_definition, "description")
                      THEN Raised("ValidationError: ActorInputDefinition", build.net)
                      ELSE Returned(
                             [type |-> "ActorInputDefinition",
                              title |-> actor_definition.title,
                              description |-> actor_definition.description,
                              properties |->
                                 [n \in DOMAIN set |-> ActorInputProperty(set[n])]],
                             build.net)

\* An agent invokes the input-schema tool.
Invoke_tool_get_actor_input_schema ==
    /\ tool = "idle"
    /\ tool' = "tools.GetActorInputSchemaTool"
    /\ result' = tool_get_actor_input_schema(APIFY_TOKEN, platform, "acme/foo")
    /\ UNCHANGED <<worldVars, mainVars>>

-----------------------------------------------------------------------------
(* The invocations of the input-schema tool *)

MaxProps == 2

\* The names of the first n declared properties.
FirstNames(n) == 1..n

PropValues == {None, "x", "y"}

Dicts(keys, vals) == UNION {[ks -> vals] : ks \in SUBSET keys}

\* A declared property: title and type, with or without a description, and
\* any of prefill / default, each null or a value.
SchemaProps ==
    {base @@ pd : base \in {[title |-> "T", type |-> "string"],
                            [title |-> "T", type |-> "string", description |-> "D"]},
                  pd \in Dicts({"prefill", "default"}, PropValues)}

ActorDefinitions ==
    {EmptyDict, NoneDict,
     [title |-> "A", description |-> "B"],
     [title |-> "A", description |-> "B", input |-> EmptyDict],
     [title |-> "A", description |-> "B", input |-> NoneDict],
     [title |-> "A", description |-> "B", input |-> [title |-> "S"]]}
    \cup {[title |-> "A", description |-> "B",
           input |-> [title |-> "S", properties |-> ps]] :
            ps \in Dicts(FirstNames(MaxProps), SchemaProps)}
    \cup {[title |-> "A", input |-> [title |-> "S", properties |-> ps]] :
            ps \in Dicts(FirstNames(1), SchemaProps)}

SchemaBuilds ==
    {BuildResponse(EmptyDict)}
    \cup {BuildResponse([actorDefinition |-> ad]) :
            ad \in ActorDefinitions}

FoundActor == [found |-> TRUE, d |-> [name |-> "foo", id |-> "ID1"]]

InitSchema ==
    /\ APIFY_TOKEN \in {"", "apify_api_token"}
    /\ platform \in [actor : {FoundActor}, build : SchemaBuilds]
    /\ now = 0
    /\ IdleMain
    /\ IdleTool

NextSchema == Invoke_tool_get_actor_input_schema

SpecSchema == InitSchema /\ [][NextSchema]_vars

-----------------------------------------------------------------------------
(* Claims about the input-schema adapter *)

DeclaredProps ==
    GetDefault(GetDefault(GetDefault(platform.build.data, "actorDefinition",
                                     EmptyDict),
                          "input", EmptyDict),
               "properties", EmptyDict)

SchemaReturned ==
    /\ tool = "tools.GetActorInputSchemaTool"
    /\ result.exc = "none"
    /\ result.val.type = "ActorInputDefinition"

\* The build record has an actor definition (an object that is not empty).
HasDefinition ==
    /\ "actorDefinition" \in DOMAIN platform.build.data
    /\ platform.build.data.actorDefinition # NoneDict
    /\ platform.build.data.actorDefinition # EmptyDict

\* The definition declares a non-empty input schema.
HasInputSchema ==
    /\ HasDefinition
    /\ "input" \in DOMAIN platform.build.data.actorDefinition
    /\ platform.build.data.actorDefinition.input # NoneDict
    /\ platform.build.data.actorDefinition.input # EmptyDict

SchemaRan == tool = "tools.GetActorInputSchemaTool" /\ APIFY_TOKEN # ""

C8_PrefillWins ==
    SchemaReturned =>
        \A n \in DOMAIN DeclaredProps :
            /\ n \in DOMAIN result.val.properties
            /\ {"prefill", "default"} \subseteq DOMAIN DeclaredProps[n] =>
                  result.val.properties[n].default = DeclaredProps[n].prefill

C8_PrefillAndDefaultDiffer ==
    /\ SchemaReturned
    /\ \E n \in DOMAIN DeclaredProps :
          /\ {"prefill", "default"} \subseteq DOMAIN DeclaredProps[n]
          /\ DeclaredProps[n].prefill = "x"
          /\ DeclaredProps[n].default = "y"
          /\ result.val.properties[n].default = "x"

-----------------------------------------------------------------------------
(* str, as a sequence of characters *)

UpperToLower ==
    [c \in {"A", "B", "C", "D", "E", "F", "G", "H", "I", "J", "K", "L", "M", "N", "O", "P", "Q", "R", "S", "T", "U", "V", "W", "X", "Y", "Z"} |->
        CASE c = "A" -> "a"
          [] c = "B" -> "b"
          [] c = "C" -> "c"
          [] c = "D" -> "d"
          [] c = "E" -> "e"
          [] c = "F" -> "f"
          [] c = "G" -> "g"
          [] c = "H" -> "h"
          [] c = "I" -> "i"
          [] c = "J" -> "j"
          [] c = "K" -> "k"
          [] c = "L" -> "l"
          [] c = "M" -> "m"
          [] c = "N" -> "n"
          [] c = "O" -> "o"
          [] c = "P" -> "p"
          [] c = "Q" -> "q"
          [] c = "R" -> "r"
          [] c = "S" -> "s"
          [] c = "T" -> "t"
          [] c = "U" -> "u"
          [] c = "V" -> "v"
          [] c = "W" -> "w"
          [] c = "X" -> "x"
          [] c = "Y" -> "y"
          [] c = "Z" -> "z"]

lower_char(c) == IF c \in DOMAIN UpperToLower THEN UpperToLower[c] ELSE c

\* str.lower()
lower(str) == [i \in DOMAIN str |-> lower_char(str[i])]

\* substring in str
IsSubstring(substring, str) ==
    \E i \in 1..(Len(str) - Len(substring) + 1) :
        SubSeq(str, i, i + Len(substring) - 1) = substring

\* str.split(sep), for a single-character separator
RECURSIVE split(_, _)
split(str, sep) ==
    IF \A i \in DOMAIN str : str[i] # sep THEN <<str>>
    ELSE LET k == CHOOSE i \in DOMAIN str :
                      str[i] = sep /\ \A j \in 1..(i - 1) : str[j] # sep
         IN  <<SubSeq(str, 1, k - 1)>> \o split(SubSeq(str, k + 1, Len(str)), sep)

\* The format strings of source files, lower-cased.
lower_format(format) ==
    CASE format \in {"TEXT", "Text", "text"} -> "text"
      [] format \in {"BASE64", "base64"} -> "base64"
      [] OTHER -> format

-----------------------------------------------------------------------------
(* utils.py: generate_file_tree.  A dict value of the tree is NoneNode (a   *)
(* file) or DictNode(d) (a directory).                                      *)

NoneNode == [kind |-> "None"]

DictNode(d) == [kind |-> "dict", d |-> d]

Put(d, k, v) == [x \in DOMAIN d \cup {k} |-> IF x = k THEN v ELSE d[x]]

RECURSIVE tree_insert_fresh_directory(_, _)
tree_insert_fresh_directory(current, path_parts) ==
    LET part == Head(path_parts) IN
    IF Len(path_parts) = 1
    THEN [ok |-> TRUE, d |-> Put(current, part, NoneNode)]
    ELSE LET made == Put(current, part, DictNode(EmptyDict))
             below == tree_insert_fresh_directory(made[part].d, Tail(path_parts))
         IN  [ok |-> below.ok, d |-> Put(made, part, DictNode(below.d))]

\* Lines 74-84 for one file: ok is FALSE when an item of None is assigned or
\* tested (TypeError).
RECURSIVE tree_insert(_, _)
tree_insert(current, path_parts) ==
    LET part == Head(path_parts) IN
    IF Len(path_parts) = 1
    THEN [ok |-> TRUE, d |-> Put(current, part, NoneNode)]
    ELSE LET made == IF part \in DOMAIN current THEN current
                     ELSE Put(current, part, DictNode(EmptyDict))
         IN  IF made[part].kind = "None"
             THEN [ok |-> FALSE, d |-> made]
             ELSE LET below == tree_insert(made[part].d, Tail(path_parts))
                  IN  [ok |-> below.ok, d |-> Put(made, part, DictNode(below.d))]

RECURSIVE tree_of(_, _, _)
tree_of(files, i, tree) ==
    IF i > Len(files) THEN [ok |-> TRUE, d |-> tree]
    ELSE LET next == tree_insert(tree, split(files[i].name, "/"))
         IN  IF next.ok THEN tree_of(files, i + 1, next.d) ELSE next

\* Lines 54-86.
generate_file_tree(files) ==
    LET built == tree_of(files, 1, EmptyDict)
    IN  IF built.ok THEN Returned(built.d, <<>>)
        ELSE Raised("TypeError: NoneType item", <<>>)

-----------------------------------------------------------------------------
(* utils.py: the source files and repository URLs of an actor *)

\* [x for x in seq if keep(x)], keep given per index.
RECURSIVE filter_from(_, _, _)
filter_from(seq, keep, i) ==
    IF i > Len(seq) THEN <<>>
    ELSE (IF keep[i] THEN <<seq[i]>> ELSE <<>>) \o filter_from(seq, keep, i + 1)

Filter(seq, keep) == filter_from(seq, keep, 1)

get_actor_source_files_case_sensitive(env, plat, actor_name) ==
    LET tok == get_apify_token(env)
        id == get_actor_id(env, plat, actor_name)
    IN  IF tok.exc # "none" THEN tok
        ELSE IF id.exc # "none" THEN id
        ELSE LET req == id.net \o <<[call |-> "versions.list", target |-> id.val]>>
                 versions == plat.versions
                 tagged == {i \in DOMAIN versions :
                               Get(versions[i], "buildTag") = "latest"}
             IN  IF tagged = {} THEN Returned(<<>>, req)
                 ELSE LET latest_version ==
                              versions[CHOOSE i \in tagged : \A j \in tagged : i <= j]
                          source_files == GetDefault(latest_version, "sourceFiles", <<>>)
                          is_text ==
                              [k \in DOMAIN source_files |->
                                  GetDefault(source_files[k], "format", "") = "text"]
                      IN  Returned(Filter(source_files, is_text), req)

\* Lines 130-147.
get_actor_source_files(env, plat, actor_name) ==
    LET tok == get_apify_token(env)
        id == get_actor_id(env, plat, actor_name)
    IN  IF tok.exc # "none" THEN tok
        ELSE IF id.exc # "none" THEN id
        ELSE LET req == id.net \o <<[call |-> "versions.list", target |-> id.val]>>
                 versions == plat.versions
                 tagged == {i \in DOMAIN versions :
                               Get(versions[i], "buildTag") = "latest"}
             IN  IF Down(plat, "versions.list")
                 THEN Raised("ApifyApiError: versions.list", req)
                 ELSE IF tagged = {} THEN Returned(<<>>, req)
                 ELSE LET latest_version ==
                              versions[CHOOSE i \in tagged : \A j \in tagged : i <= j]
                          source_files == GetDefault(latest_version, "sourceFiles", <<>>)
                          is_text ==
                              [k \in DOMAIN source_files |->
                                  lower_format(GetDefault(source_files[k], "format", ""))
                                      = "text"]
                      IN  Returned(Filter(source_files, is_text), req)

github_repo_exists_false_on_error(plat, repository_url) ==
    IF Down(plat, "GET")
    THEN Returned(FALSE, <<[call |-> "GET", target |-> repository_url]>>)
    ELSE Returned(plat.status[repository_url] = 200,
                  <<[call |-> "GET", target |-> repository_url]>>)

\* Lines 116-127: one GET of the repository URL.
github_repo_exists(plat, repository_url) ==
    IF Down(plat, "GET")
    THEN Raised("ConnectionError: GET", <<[call |-> "GET", target |-> repository_url]>>)
    ELSE Returned(plat.status[repository_url] = 200,
                  <<[call |-> "GET", target |-> repository_url]>>)

get_actor_github_urls_versions_first(env, plat, actor_name) ==
    LET tok == get_apify_token(env)
        id == get_actor_id(env, plat, actor_name)
    IN  IF tok.exc # "none" THEN tok
        ELSE IF id.exc # "none" THEN id
        ELSE LET build == get_actor_latest_build(env, plat, id.val) IN
             IF build.exc # "none" THEN Raised(build.exc, id.net \o build.net)
             ELSE LET build_repo_url ==
                          Get(GetDefault(build.val, "actVersion", EmptyDict),
                              "gitRepoUrl")
                      first == IF Truthy(build_repo_url) THEN <<build_repo_url>>
                               ELSE <<>>
                      versions == plat.versions
                      has_url == [k \in DOMAIN versions |->
                                     Truthy(Get(versions[k], "gitRepoUrl"))]
                      with_url == Filter(versions, has_url)
                      req == id.net \o build.net
                             \o <<[call |-> "versions.list", target |-> id.val]>>
                  IN  Returned([i \in DOMAIN with_url |-> with_url[i].gitRepoUrl] \o first,
                               req)

\* Lines 89-113.
get_actor_github_urls(env, plat, actor_name) ==
    LET tok == get_apify_token(env)
        id == get_actor_id(env, plat, actor_name)
    IN  IF tok.exc # "none" THEN tok
        ELSE IF id.exc # "none" THEN id
        ELSE LET build == get_actor_latest_build(env, plat, id.val) IN
             IF build.exc # "none" THEN Raised(build.exc, id.net \o build.net)
             ELSE LET build_repo_url ==
                          Get(GetDefault(build.val, "actVersion", EmptyDict),
                              "gitRepoUrl")
                      first == IF Truthy(build_repo_url) THEN <<build_repo_url>>
                               ELSE <<>>
                      versions == plat.versions
                      has_url == [k \in DOMAIN versions |->
                                     Truthy(Get(versions[k], "gitRepoUrl"))]
                      with_url == Filter(versions, has_url)
                      req == id.net \o build.net
                             \o <<[call |-> "versions.list", target |-> id.val]>>
                  IN  IF Down(plat, "versions.list")
                      THEN Raised("ApifyApiError: versions.list", req)
                      ELSE Returned(first \o [i \in DOMAIN with_url |->
                                                 with_url[i].gitRepoUrl],
                                    req)

-----------------------------------------------------------------------------
(* tools.py: tool_get_code_context.  CodeFile / CodeContext are the name,   *)
(* content / tree, files models of models.py.                               *)

FILES_TO_SKIP ==
    <<<<"l", "i", "c", "e", "n", "s", "e">>,
      <<"p", "a", "c", "k", "a", "g", "e", "-", "l", "o", "c", "k", ".", "j", "s", "o", "n">>,
      <<"y", "a", "r", "n", ".", "l", "o", "c", "k">>,
      <<"r", "e", "a", "d", "m", "e", ".", "m", "d">>,
      <<"p", "o", "e", "t", "r", "y", ".", "l", "o", "c", "k">>,
      <<"r", "e", "q", "u", "i", "r", "e", "m", "e", "n", "t", "s", ".", "t", "x", "t">>,
      <<"s", "e", "t", "u", "p", ".", "p", "y">>,
      <<"u", "v", ".", "l", "o", "c", "k">>>>

skip_file_case_sensitive(name) ==
    \E k \in DOMAIN FILES_TO_SKIP : IsSubstring(FILES_TO_SKIP[k], name)

\* Lines 126 and 145: any(substring in name.lower() for substring in FILES_TO_SKIP)
skip_file(name) ==
    \E k \in DOMAIN FILES_TO_SKIP : IsSubstring(FILES_TO_SKIP[k], lower(name))

CodeFile(name, content) == [name |-> name, content |-> content]

CodeContext(tree, files) == [type |-> "CodeContext", tree |-> tree, files |-> files]

\* Line 135: repo_url.split('github.com/')[-1].replace('.git', '')
repo_path(repo_url) ==
    CASE repo_url \in {"https://github.com/acme/foo", "https://github.com/acme/foo.git"}
           -> "acme/foo"
      [] repo_url = "https://github.com/acme/bar" -> "acme/bar"
      [] repo_url = "https://github.com/acme/baz.git" -> "acme/baz"
      [] OTHER -> repo_url

code_not_available_raises(actor_name, requests) ==
    Raised("ValueError: Code for Actor is not available", requests)

\* Line 150: the sentinel returned when no code was found.
code_not_available(actor_name, requests) ==
    Returned([type |-> "str",
              value |-> "Code for Actor {actor_name} is not available. Skip the tool and grade the code as N/A.",
              actor_name |-> actor_name],
             requests)

\* Lines 131-148: the loop over the repository URLs, from the i-th on.
RECURSIVE repo_loop(_, _, _, _, _)
repo_loop(plat, actor_name, repo_urls, i, requests) ==
    IF i > Len(repo_urls) THEN code_not_available(actor_name, requests)
    ELSE LET repo_url == repo_urls[i]
             probe == github_repo_exists(plat, repo_url)
         IN  IF probe.exc # "none" THEN Raised(probe.exc, requests \o probe.net)
             ELSE IF ~probe.val
             THEN repo_loop(plat, actor_name, repo_urls, i + 1, requests \o probe.net)
             ELSE LET req == requests \o probe.net
                             \o <<[call |-> "GET uithub", target |-> repo_path(repo_url)]>>
                      data == plat.render
                      items == GetDefault(data, "files", <<>>)
                      keep == [k \in DOMAIN items |->
                                  ~skip_file(items[k].name) /\ items[k].type = "content"]
                      kept == Filter(items, keep)
                  IN  IF Down(plat, "GET uithub")
                      THEN Raised("ConnectionError: GET uithub", req)
                      ELSE IF "tree" \notin DOMAIN data
                      THEN Raised("KeyError: tree", req)
                      ELSE Returned(
                             CodeContext(data.tree,
                                         [k \in DOMAIN kept |->
                                             CodeFile(kept[k].name, kept[k].content)]),
                             req)

tool_get_code_context_tree_of_kept(env, plat, actor_name) ==
    LET tok == get_apify_token(env)
        source == get_actor_source_files(env, plat, actor_name)
    IN  IF tok.exc # "none" THEN tok
        ELSE IF source.exc # "none" THEN source
        ELSE IF source.val # <<>>
        THEN LET source_files == source.val
                 keep == [k \in DOMAIN source_files |->
                             ~skip_file(source_files[k].name)]
                 kept == Filter(source_files, keep)
                 tree == generate_file_tree(kept)
             IN  IF tree.exc # "none" THEN Raised(tree.exc, source.net)
                 ELSE Returned(
                        CodeContext(tree.val,
                                    [k \in DOMAIN kept |->
                                        CodeFile(kept[k].name, kept[k].content)]),
                        source.net)
        ELSE LET urls == get_actor_github_urls(env, plat, actor_name) IN
             IF urls.exc # "none" THEN Raised(urls.exc, source.net \o urls.net)
             ELSE repo_loop(plat, actor_name, urls.val, 1, source.net \o urls.net)

\* Lines 107-150.
tool_get_code_context(env, plat, actor_name) ==
    LET tok == get_apify_token(env)
        source == get_actor_source_files(env, plat, actor_name)
    IN  IF tok.exc # "none" THEN tok
        ELSE IF source.exc # "none" THEN source
        ELSE IF source.val # <<>>
        THEN LET source_files == source.val
                 tree == generate_file_tree(source_files)
                 keep == [k \in DOMAIN source_files |->
                             ~skip_file(source_files[k].name)]
                 kept == Filter(source_files, keep)
             IN  IF tree.exc # "none" THEN Raised(tree.exc, source.net)
                 ELSE Returned(
                        CodeContext(tree.val,
                                    [k \in DOMAIN kept |->
                                        CodeFile(kept[k].name, kept[k].content)]),
                        source.net)
        ELSE LET urls == get_actor_github_urls(env, plat, actor_name) IN
             IF urls.exc # "none" THEN Raised(urls.exc, source.net \o urls.net)
             ELSE repo_loop(plat, actor_name, urls.val, 1, source.net \o urls.net)

\* A call of get_actor_source_files.
Invoke_get_actor_source_files ==
    /\ tool = "idle"
    /\ tool' = "utils.get_actor_source_files"
    /\ result' = get_actor_source_files(APIFY_TOKEN, platform, "acme/foo")
    /\ UNCHANGED <<worldVars, mainVars>>

\* An agent invokes the source-code tool.
Invoke_tool_get_code_context ==
    /\ tool = "idle"
    /\ tool' = "tools.GetActorCodeTool"
    /\ result' = tool_get_code_context(APIFY_TOKEN, platform, "acme/foo")
    /\ UNCHANGED <<worldVars, mainVars>>

-----------------------------------------------------------------------------
(* The invocations of the source-code tool *)

MaxVersions == 2

MaxFiles == 2

FileNames ==
    {<<"L", "I", "C", "E", "N", "S", "E">>,
     <<"p", "a", "c", "k", "a", "g", "e", "-", "l", "o", "c", "k", ".", "j", "s", "o", "n">>,
     <<"Y", "a", "r", "n", ".", "l", "o", "c", "k">>,
     <<"R", "E", "A", "D", "M", "E", ".", "m", "d">>,
     <<"p", "o", "e", "t", "r", "y", ".", "l", "o", "c", "k">>,
     <<"d", "o", "c", "s", "/", "r", "e", "q", "u", "i", "r", "e", "m", "e", "n", "t", "s", ".", "t", "x", "t">>,
     <<"S", "e", "t", "u", "p", ".", "p", "y">>,
     <<"u", "v", ".", "l", "o", "c", "k">>,
     <<"s", "r", "c", "/", "m", "a", "i", "n", ".", "p", "y">>,
     <<"r", "e", "a", "d", "m", "e", ".", "t", "x", "t">>,
     <<"D", "o", "c", "k", "e", "r", "f", "i", "l", "e">>}

MainPy == <<"s", "r", "c", "/", "m", "a", "i", "n", ".", "p", "y">>

ReadmeMd == <<"R", "E", "A", "D", "M", "E", ".", "m", "d">>

\* Bundled source files: any catalogue name, as text or not.
SourceFiles ==
    [name : FileNames, format : {"text", "BASE64"}, content : {"c"}]

\* Entries of the rendering service's 'files' mapping.
RepoFiles == [name : FileNames, type : {"content", "binary"}, content : {"c"}]

DistinctNames(l) == \A i, j \in DOMAIN l : i # j => l[i].name # l[j].name

RepoUrls == {RepoUrl, "https://github.com/acme/bar",
             "https://github.com/acme/baz.git"}

ServiceTree == [src |-> DictNode([x \in {MainPy} |-> NoneNode])]

SampleRender ==
    [tree |-> ServiceTree,
     files |-> <<[name |-> ReadmeMd, type |-> "content", content |-> "c"],
                 [name |-> MainPy, type |-> "content", content |-> "c"]>>]

\* The file lists of the versions of the first family of packages.
SampleFileLists ==
    {<<[name |-> MainPy, format |-> "BASE64", content |-> "c"]>>,
     <<[name |-> ReadmeMd, format |-> "Text", content |-> "c"],
       [name |-> MainPy, format |-> "TEXT", content |-> "c"]>>}

Versions ==
    {[buildTag |-> t, sourceFiles |-> l] :
        t \in {"latest", "beta"}, l \in SampleFileLists}
    \cup {[buildTag |-> t, sourceFiles |-> l, gitRepoUrl |-> u] :
            t \in {"latest", "beta"}, l \in SampleFileLists,
            u \in {"https://github.com/acme/bar", "https://github.com/acme/baz.git"}}

CodeBuilds ==
    {BuildResponse(EmptyDict),
     BuildResponse([actVersion |-> EmptyDict]),
     BuildResponse([actVersion |-> [gitRepoUrl |-> RepoUrl]])}

\* Packages with several versions, repository URLs and probe outcomes.
VersionedPackages ==
    [actor : {FoundActor}, build : CodeBuilds,
     versions : SeqsUpTo(Versions, MaxVersions),
     status : [RepoUrls -> {200, 404}],
     render : {SampleRender}]

\* Packages with one version tagged latest, with any bundled files.
BundledPackages ==
    [actor : {FoundActor}, build : {OkBuild},
     versions : {<<[buildTag |-> "latest", sourceFiles |-> l]>> :
                    l \in SeqsUpTo(SourceFiles, MaxFiles)},
     status : {[u \in RepoUrls |-> 200]},
     render : {SampleRender}]

\* Packages without bundled files whose repository renders to any files.
RenderedPackages ==
    [actor : {FoundActor},
     build : {BuildResponse([actVersion |-> [gitRepoUrl |-> RepoUrl]])},
     versions : {<<>>},
     status : {[u \in RepoUrls |-> 200]},
     render : {[tree |-> ServiceTree, files |-> l] :
                  l \in {x \in SeqsUpTo(RepoFiles, MaxFiles) : DistinctNames(x)}}
              \cup {[tree |-> ServiceTree], [files |-> <<>>]}]

\* Packages that cannot be resolved.
UnresolvedPackages ==
    [actor : ActorAnswers, build : BuildAnswers, versions : {<<>>},
     status : {[u \in RepoUrls |-> 404]}, render : {SampleRender}]

InitCode ==
    /\ \/ /\ APIFY_TOKEN = "apify_api_token"
          /\ platform \in VersionedPackages \cup BundledPackages
                          \cup RenderedPackages \cup UnresolvedPackages
       \/ /\ APIFY_TOKEN = ""
          /\ platform \in UnresolvedPackages
    /\ now = 0
    /\ IdleMain
    /\ IdleTool

NextCode ==
    \/ Invoke_tool_get_code_context
    \/ Invoke_get_actor_source_files

SpecCode == InitCode /\ [][NextCode]_vars

-----------------------------------------------------------------------------
(* Claims about the source-code adapter *)

CodeRan == tool = "tools.GetActorCodeTool"

\* The package resolves: the token is set, the actor has an id and the build
\* response carries a data object.
PackageResolves ==
    /\ APIFY_TOKEN # ""
    /\ platform.actor.found
    /\ Truthy(Get(platform.actor.d, "id"))
    /\ platform.build.type = "dict"
    /\ platform.build.data_type = "dict"

BuildRepoUrl ==
    Get(GetDefault(platform.build.data, "actVersion", EmptyDict), "gitRepoUrl")

NoRepoUrlAnywhere ==
    /\ ~Truthy(BuildRepoUrl)
    /\ \A i \in DOMAIN platform.versions :
          ~Truthy(Get(platform.versions[i], "gitRepoUrl"))

NoBundledTextFile ==
    \A i \in DOMAIN platform.versions :
        LET files == GetDefault(platform.versions[i], "sourceFiles", <<>>)
        IN  \A k \in DOMAIN files : files[k].format \notin {"text", "Text", "TEXT"}

\* C4: for a package whose latest build has no gitRepoUrl, whose versions have
\* none and which has no bundled text source file, tool_get_code_context
\* returns the 'code not available ... grade as N/A' sentinel and does not
\* raise.
C4_UnavailableCodeGivesSentinel ==
    (CodeRan /\ PackageResolves /\ NoRepoUrlAnywhere /\ NoBundledTextFile) =>
        /\ result.exc = "none"
        /\ result.val.type = "str"
        /\ result.val.value =
             "Code for Actor {actor_name} is not available. Skip the tool and grade the code as N/A."
        /\ result.val.actor_name = "acme/foo"

C4_VersionsWithoutCode ==
    /\ CodeRan /\ PackageResolves /\ NoRepoUrlAnywhere /\ NoBundledTextFile
    /\ Len(platform.versions) = 2
    /\ platform.versions[1].buildTag = "latest"
    /\ platform.versions[1].sourceFiles # <<>>
    /\ "actVersion" \in DOMAIN platform.build.data
    /\ result.exc = "none"

\* The denylist as the design states it.
Denylist ==
    {<<"l", "i", "c", "e", "n", "s", "e">>,
     <<"p", "a", "c", "k", "a", "g", "e", "-", "l", "o", "c", "k", ".", "j", "s", "o", "n">>,
     <<"y", "a", "r", "n", ".", "l", "o", "c", "k">>,
     <<"r", "e", "a", "d", "m", "e", ".", "m", "d">>,
     <<"p", "o", "e", "t", "r", "y", ".", "l", "o", "c", "k">>,
     <<"r", "e", "q", "u", "i", "r", "e", "m", "e", "n", "t", "s", ".", "t", "x", "t">>,
     <<"s", "e", "t", "u", "p", ".", "p", "y">>,
     <<"u", "v", ".", "l", "o", "c", "k">>}

Denylisted(name) == \E substring \in Denylist : IsSubstring(substring, lower(name))

CodeContextReturned ==
    CodeRan /\ result.exc = "none" /\ result.val.type = "CodeContext"

BundledFiles == get_actor_source_files(APIFY_TOKEN, platform, "acme/foo").val

RenderedFiles == GetDefault(platform.render, "files", <<>>)

HasFile(files, name, content) ==
    \E k \in DOMAIN files : files[k] = [name |-> name, content |-> content]

\* C5: in every CodeContext returned, from bundled files or from the rendered
\* repository, no file's lower-cased name contains a denylisted substring, and
\* every input file whose lower-cased name contains none (and, from the
\* repository, whose type is 'content') is present.
C5_DenylistFiltered ==
    CodeContextReturned =>
        /\ \A k \in DOMAIN result.val.files : ~Denylisted(result.val.files[k].name)
        /\ BundledFiles # <<>> =>
              \A k \in DOMAIN BundledFiles :
                  ~Denylisted(BundledFiles[k].name) =>
                      HasFile(result.val.files, BundledFiles[k].name,
                              BundledFiles[k].content)
        /\ BundledFiles = <<>> =>
              \A k \in DOMAIN RenderedFiles :
                  (/\ ~Denylisted(RenderedFiles[k].name)
                   /\ RenderedFiles[k].type = "content") =>
                      HasFile(result.val.files, RenderedFiles[k].name,
                              RenderedFiles[k].content)

C5_BundledReadmeDropped ==
    /\ CodeContextReturned
    /\ Len(BundledFiles) = 2
    /\ BundledFiles[1].name = ReadmeMd
    /\ BundledFiles[2].name = MainPy
    /\ Len(result.val.files) = 1
    /\ result.val.files[1].name = MainPy

C5_RenderedLicenseDropped ==
    /\ CodeContextReturned
    /\ BundledFiles = <<>>
    /\ Len(RenderedFiles) = 2
    /\ RenderedFiles[1].name = <<"L", "I", "C", "E", "N", "S", "E">>
    /\ RenderedFiles[1].type = "content"
    /\ RenderedFiles[2].name = MainPy
    /\ RenderedFiles[2].type = "content"
    /\ Len(result.val.files) = 1
    /\ result.val.files[1].name = MainPy

HasRepoUrl(version) == Truthy(Get(version, "gitRepoUrl"))

VersionsWithUrl == SelectSeq(platform.versions, HasRepoUrl)

\* The candidate repository URLs: the latest build's, then the versions'.
Candidates ==
    (IF Truthy(BuildRepoUrl) THEN <<BuildRepoUrl>> ELSE <<>>)
    \o [i \in DOMAIN VersionsWithUrl |-> VersionsWithUrl[i].gitRepoUrl]

IsProbe(request) == request.call = "GET"

IsRender(request) == request.call = "GET uithub"

Probes == SelectSeq(result.net, IsProbe)

Renders == SelectSeq(result.net, IsRender)

Resolving == {i \in DOMAIN Candidates : platform.status[Candidates[i]] = 200}

\* C21: the source-code tool sends requests to GitHub only when the latest
\* version bundles no text source file; the candidates are the latest build's
\* repository URL followed by the versions' URLs in the order of the version
\* list; they are probed in that order up to and including the first whose
\* probe answers 200, that one alone is sent to the rendering service, and
\* no request follows the rendering.
C21_ProbesInOrderUntilFirstSuccess ==
    (CodeRan /\ PackageResolves) =>
        /\ BundledFiles # <<>> => (Probes = <<>> /\ Renders = <<>>)
        /\ BundledFiles = <<>> =>
              IF Resolving = {}
              THEN /\ [i \in DOMAIN Probes |-> Probes[i].target] = Candidates
                   /\ Renders = <<>>
              ELSE LET hit == First(Resolving) IN
                   /\ [i \in DOMAIN Probes |-> Probes[i].target]
                        = SubSeq(Candidates, 1, hit)
                   /\ Renders = <<[call |-> "GET uithub",
                                   target |-> repo_path(Candidates[hit])]>>
                   /\ result.net[Len(result.net)] = Renders[1]
                   /\ result.net[Len(result.net) - 1] = Probes[hit]

\* The scenario of C21: the build's URL and the first version's URL do not
\* resolve, the second version's does, and a probe of it is the last one.
C21_ThirdCandidateResolves ==
    /\ CodeRan /\ PackageResolves
    /\ BundledFiles = <<>>
    /\ Len(Candidates) = 3
    /\ Candidates[1] = RepoUrl
    /\ Candidates[2] # Candidates[3]
    /\ Resolving = {3}
    /\ Len(Probes) = 3
    /\ Len(Renders) = 1
    /\ result.exc = "none"

SourceFilesRan == tool = "utils.get_actor_source_files"

TaggedLatest ==
    {i \in DOMAIN platform.versions :
        /\ "buildTag" \in DOMAIN platform.versions[i]
        /\ platform.versions[i].buildTag = "latest"}

\* The spellings of 'text' among the formats of the packages.
IsTextFile(file) ==
    "format" \in DOMAIN file /\ file.format \in {"text", "Text", "TEXT"}

\* C22: get_actor_source_files returns the source files of the first version
\* whose buildTag is 'latest' that have the format 'text' in any letter case,
\* in their original order; it returns the empty list when no version is
\* tagged 'latest' or that version has no text file.
C22_TextFilesOfFirstLatest ==
    (/\ SourceFilesRan
     /\ APIFY_TOKEN # "" /\ platform.actor.found
     /\ Truthy(Get(platform.actor.d, "id"))) =>
        /\ result.exc = "none"
        /\ result.val =
             IF TaggedLatest = {} THEN <<>>
             ELSE SelectSeq(GetDefault(platform.versions[First(TaggedLatest)],
                                       "sourceFiles", <<>>),
                            IsTextFile)

\* The scenario of C22: the second of two versions is the first tagged
\* 'latest'; its files are spelled 'Text' and 'TEXT' and are both returned.
C22_SecondVersionIsLatest ==
    /\ SourceFilesRan
    /\ Len(platform.versions) = 2
    /\ platform.versions[1].buildTag = "beta"
    /\ platform.versions[2].buildTag = "latest"
    /\ Len(platform.versions[2].sourceFiles) = 2
    /\ platform.versions[2].sourceFiles[1].format = "Text"
    /\ platform.versions[2].sourceFiles[2].format = "TEXT"
    /\ platform.versions[1].sourceFiles # platform.versions[2].sourceFiles
    /\ result.val = platform.versions[2].sourceFiles

\* Two versions tagged 'latest' with different files: the first one's count.
C22_TwoLatestVersions ==
    /\ SourceFilesRan
    /\ Len(platform.versions) = 2
    /\ platform.versions[1].buildTag = "latest"
    /\ platform.versions[2].buildTag = "latest"
    /\ platform.versions[1].sourceFiles[1].format = "BASE64"
    /\ platform.versions[2].sourceFiles[1].format = "Text"
    /\ result.exc = "none"
    /\ result.val = <<>>

-----------------------------------------------------------------------------
(* The file trees of bundled source files *)

MaxPaths == 3

\* Paths as sequences of segments: files at the top, in a directory and two
\* levels down, a path that is a directory of others, a denylisted file.
PathParts ==
    {<< <<"a">> >>,
     << <<"b">> >>,
     << <<"a">>, <<"b">> >>,
     << <<"a">>, <<"c">> >>,
     << <<"a">>, <<"b">>, <<"c">> >>,
     << <<"a">>, <<"u", "v", ".", "l", "o", "c", "k">> >>}

\* '/'.join(parts)
RECURSIVE Join(_)
Join(parts) ==
    IF Len(parts) = 1 THEN parts[1]
    ELSE parts[1] \o <<"/">> \o Join(Tail(parts))

TreeFiles == {[name |-> Join(p), format |-> "text", content |-> "c"] : p \in PathParts}

\* Packages whose one version, tagged latest, bundles text files of any of
\* these paths, in any order, with repetitions.
TreePackages ==
    [actor : {FoundActor}, build : {OkBuild},
     versions : {<<[buildTag |-> "latest", sourceFiles |-> l]>> :
                    l \in SeqsUpTo(TreeFiles, MaxPaths)},
     status : {[u \in RepoUrls |-> 200]},
     render : {SampleRender}]

\* A call of generate_file_tree on the bundled files of the package.
Invoke_generate_file_tree ==
    /\ tool = "idle"
    /\ tool' = "utils.generate_file_tree"
    /\ result' = generate_file_tree(platform.versions[1].sourceFiles)
    /\ UNCHANGED <<worldVars, mainVars>>

InitTree ==
    /\ APIFY_TOKEN = "apify_api_token"
    /\ platform \in TreePackages
    /\ now = 0
    /\ IdleMain
    /\ IdleTool

NextTree ==
    \/ Invoke_generate_file_tree
    \/ Invoke_tool_get_code_context

SpecTree == InitTree /\ [][NextTree]_vars

-----------------------------------------------------------------------------
(* Claims about the file tree *)

TreeRan == tool = "utils.generate_file_tree"

InputFiles == platform.versions[1].sourceFiles

PartsOf(name) == CHOOSE p \in PathParts : Join(p) = name

PathsOf(files) == {PartsOf(files[k].name) : k \in DOMAIN files}

\* p is a directory prefix of q.
ProperPrefix(p, q) == Len(p) < Len(q) /\ SubSeq(q, 1, Len(p)) = p

PrefixFree(files) ==
    \A p, q \in PathsOf(files) : ~ProperPrefix(p, q)

\* A path is a directory prefix of a later entry of the list.
PrefixBefore(files) ==
    \E i, j \in DOMAIN files :
        i < j /\ ProperPrefix(PartsOf(files[i].name), PartsOf(files[j].name))

\* The paths of the leaves (value None) of a nested mapping.
RECURSIVE Leaves(_)
Leaves(d) ==
    UNION {IF d[k].kind = "None" THEN {<<k>>}
           ELSE {<<k>> \o p : p \in Leaves(d[k].d)} : k \in DOMAIN d}

\* C27 as stated: for every list of paths generate_file_tree returns without
\* error a nested mapping whose leaves are exactly the input paths, also when
\* one path is a directory prefix of another.
C27_LeavesAreInputPaths ==
    TreeRan =>
        /\ result.exc = "none"
        /\ Leaves(result.val) = PathsOf(InputFiles)

\* C27 as amended: for every list of paths of which none is a directory
\* prefix of another, generate_file_tree returns without error a nested
\* mapping whose leaves are exactly the input paths, the same mapping for
\* every order and repetition of the paths.  When a path is a directory
\* prefix of a later one the call raises a TypeError; when it is one only of
\* earlier ones, the file replaces the directory and the leaves are the
\* input paths that have no directory prefix among the input paths.
C27_LeavesOfPrefixFreeLists ==
    TreeRan =>
        /\ PrefixFree(InputFiles) =>
              /\ result.exc = "none"
              /\ Leaves(result.val) = PathsOf(InputFiles)
              /\ \A l \in SeqsUpTo(TreeFiles, MaxPaths) :
                    PathsOf(l) = PathsOf(InputFiles) =>
                        generate_file_tree(l) = result
        /\ PrefixBefore(InputFiles) => result.exc = "TypeError: NoneType item"
        /\ (~PrefixFree(InputFiles) /\ ~PrefixBefore(InputFiles)) =>
              /\ result.exc = "none"
              /\ Leaves(result.val) =
                    {p \in PathsOf(InputFiles) :
                        \A q \in PathsOf(InputFiles) : ~ProperPrefix(q, p)}

\* The scenario of C27: three entries, one path twice, two levels of
\* directories, no path a prefix of another.
C27_NestedPathsWithDuplicate ==
    /\ TreeRan
    /\ Len(InputFiles) = 3
    /\ InputFiles[1].name = Join(<< <<"a">>, <<"b">>, <<"c">> >>)
    /\ InputFiles[2].name = Join(<< <<"a">>, <<"c">> >>)
    /\ InputFiles[3] = InputFiles[1]
    /\ result.exc = "none"
    /\ Cardinality(Leaves(result.val)) = 2

\* 'a' before 'a/b': the call raises.
C27_PrefixFirstRaises ==
    /\ TreeRan
    /\ InputFiles = <<[name |-> <<"a">>, format |-> "text", content |-> "c"],
                      [name |-> <<"a", "/", "b">>, format |-> "text", content |-> "c"]>>
    /\ result.exc = "TypeError: NoneType item"

\* 'a/b' before 'a': the tree is {'a': None}.
C27_PrefixLastReplaces ==
    /\ TreeRan
    /\ InputFiles = <<[name |-> <<"a", "/", "b">>, format |-> "text", content |-> "c"],
                      [name |-> <<"a">>, format |-> "text", content |-> "c"]>>
    /\ result.exc = "none"
    /\ result.val = [x \in {<<"a">>} |-> NoneNode]

BundledContextReturned == CodeContextReturned /\ InputFiles # <<>>

\* C26 as stated: in every CodeContext built from bundled files the path of
\* every text source file, denylisted or not, is a leaf of 'tree', and so is
\* the path of every entry of 'files'.
C26_FilesAreLeaves ==
    BundledContextReturned =>
        /\ \A k \in DOMAIN InputFiles :
              PartsOf(InputFiles[k].name) \in Leaves(result.val.tree)
        /\ \A k \in DOMAIN result.val.files :
              PartsOf(result.val.files[k].name) \in Leaves(result.val.tree)

\* C26 as amended: when no path of a bundled text file is a directory prefix
\* of another, the path of every text source file, denylisted or not, is a
\* leaf of 'tree', and so is the path of every entry of 'files'.
C26_FilesAreLeavesWhenPrefixFree ==
    (BundledContextReturned /\ PrefixFree(InputFiles)) =>
        /\ \A k \in DOMAIN InputFiles :
              PartsOf(InputFiles[k].name) \in Leaves(result.val.tree)
        /\ \A k \in DOMAIN result.val.files :
              PartsOf(result.val.files[k].name) \in Leaves(result.val.tree)

\* The scenario of C26: a/uv.lock is left out of 'files' and is in 'tree'.
C26_DenylistedFileInTree ==
    /\ BundledContextReturned
    /\ Len(InputFiles) = 2
    /\ InputFiles[1].name = Join(<< <<"a">>, <<"u", "v", ".", "l", "o", "c", "k">> >>)
    /\ InputFiles[2].name = Join(<< <<"a">>, <<"b">> >>)
    /\ Len(result.val.files) = 1
    /\ result.val.files[1].name = InputFiles[2].name
    /\ Cardinality(Leaves(result.val.tree)) = 2

\* 'a/b' before 'a': 'files' holds a/b, 'tree' does not.
C26_FileMissingFromTree ==
    /\ BundledContextReturned
    /\ Len(InputFiles) = 2
    /\ InputFiles[1].name = <<"a", "/", "b">>
    /\ InputFiles[2].name = <<"a">>
    /\ Len(result.val.files) = 2
    /\ Leaves(result.val.tree) = {<< <<"a">> >>}

-----------------------------------------------------------------------------
(* tools.py: GetActorReadmeTool *)

GetActorReadmeTool_run_returns_empty(env, plat, actor_name) ==
    LET tok == get_apify_token(env)
        build == get_actor_latest_build(env, plat, actor_name)
    IN  IF tok.exc # "none" THEN tok
        ELSE IF build.exc # "none" THEN build
        ELSE LET actor_definition == GetDefault(build.val, "actorDefinition", EmptyDict)
             IN  IF actor_definition = NoneDict
                 THEN Raised("AttributeError: 'NoneType' object has no attribute 'get'",
                             build.net)
                 ELSE LET readme == Get(actor_definition, "readme")
                      IN  IF readme = None
                          THEN Raised("ValueError: Failed to get the README for the Actor",
                                      build.net)
                          ELSE Returned(readme, build.net)

\* Lines 44-51: the README of the latest build, ValueError when it is falsy.
GetActorReadmeTool_run(env, plat, actor_name) ==
    LET tok == get_apify_token(env)
        build == get_actor_latest_build(env, plat, actor_name)
    IN  IF tok.exc # "none" THEN tok
        ELSE IF build.exc # "none" THEN build
        ELSE LET actor_definition == GetDefault(build.val, "actorDefinition", EmptyDict)
             IN  IF actor_definition = NoneDict
                 THEN Raised("AttributeError: 'NoneType' object has no attribute 'get'",
                             build.net)
                 ELSE LET readme == Get(actor_definition, "readme")
                      IN  IF ~Truthy(readme)
                          THEN Raised("ValueError: Failed to get the README for the Actor",
                                      build.net)
                          ELSE Returned(readme, build.net)

\* An agent invokes the README tool.
Invoke_GetActorReadmeTool ==
    /\ tool = "idle"
    /\ tool' = "tools.GetActorReadmeTool"
    /\ result' = GetActorReadmeTool_run(APIFY_TOKEN, platform, "acme/foo")
    /\ UNCHANGED <<worldVars, mainVars>>

\* A caller fetches the latest build.
Invoke_get_actor_latest_build ==
    /\ tool = "idle"
    /\ tool' = "utils.get_actor_latest_build"
    /\ result' = get_actor_latest_build(APIFY_TOKEN, platform, "acme/foo")
    /\ UNCHANGED <<worldVars, mainVars>>

-----------------------------------------------------------------------------
(* The fetches of the latest build and of its README *)

Readmes == {None, "", "# Foo", "# Bar"}

\* build['actorDefinition']: absent, null, or an object with or without readme.
ReadmeDefinitions ==
    {NoneDict, EmptyDict, [title |-> "A"]}
    \cup {[readme |-> r] : r \in Readmes}
    \cup {[title |-> "A", readme |-> r] : r \in Readmes}

ReadmeBuilds ==
    BuildAnswers
    \cup {BuildResponse([actorDefinition |-> ad]) : ad \in ReadmeDefinitions}

InitBuild ==
    /\ APIFY_TOKEN \in {"", "apify_api_token"}
    /\ platform \in [actor : ActorAnswers, build : ReadmeBuilds]
    /\ now = 0
    /\ IdleMain
    /\ IdleTool

NextBuild ==
    \/ Invoke_GetActorReadmeTool
    \/ Invoke_get_actor_latest_build

SpecBuild == InitBuild /\ [][NextBuild]_vars

-----------------------------------------------------------------------------
(* Claims about the README tool and the latest build *)

\* The identity of the package resolves: token set, actor found with an id.
IdentityResolves ==
    /\ APIFY_TOKEN # ""
    /\ platform.actor.found
    /\ Truthy(Get(platform.actor.d, "id"))

\* The build-info response is an object whose 'data' is an object.
WellFormedBuild ==
    /\ platform.build.type = "dict"
    /\ "data" \in platform.build.keys
    /\ platform.build.data_type = "dict"

ReadmeRan == tool = "tools.GetActorReadmeTool" /\ IdentityResolves /\ WellFormedBuild

\* The build record's actor definition is null.
NullDefinition ==
    /\ "actorDefinition" \in DOMAIN platform.build.data
    /\ platform.build.data.actorDefinition = NoneDict

\* The README of the build record, None when there is none.
BuildReadme ==
    LET data == platform.build.data IN
    IF "actorDefinition" \notin DOMAIN data \/ NullDefinition THEN None
    ELSE IF "readme" \notin DOMAIN data.actorDefinition THEN None
    ELSE data.actorDefinition.readme

C19_BuildOnlyWhenWellFormed ==
    (tool = "utils.get_actor_latest_build" /\ IdentityResolves) =>
        LET build == platform.build IN
        /\ (result.exc = "none") <=> WellFormedBuild
        /\ WellFormedBuild => result.val = build.data
        /\ build.type # "dict"
              => result.exc = "TypeError: Failed to get the latest build"
        /\ (build.type = "dict" /\ ("data" \notin build.keys \/ build.data_type = "null"))
              => result.exc = "ValueError: Failed to get the latest build data"
        /\ (build.type = "dict" /\ "data" \in build.keys
                /\ build.data_type \notin {"null", "dict"})
              => result.exc = "TypeError: Received invalid data for the latest build"

C19_DataNotAnObject ==
    /\ tool = "utils.get_actor_latest_build"
    /\ IdentityResolves
    /\ platform.build.type = "dict"
    /\ platform.build.data_type = "str"
    /\ result.exc # "none"

-----------------------------------------------------------------------------
(* models.py: ActorStore, ActorStoreList *)

\* PricingInfo validates: pricing_model (alias pricingModel) is a required str.
PricingInfo_valid(entry) == IsStr(entry, "pricingModel")

\* ActorStore validates: name, username and title are required strings; the
\* nested current_pricing_info (alias currentPricingInfo) is None or valid.
ActorStore_valid(item) ==
    /\ IsStr(item, "name")
    /\ IsStr(item, "username")
    /\ IsStr(item, "title")
    /\ \/ "currentPricingInfo" \notin DOMAIN item
       \/ item.currentPricingInfo = NoneDict
       \/ PricingInfo_valid(item.currentPricingInfo)

ActorStore(item) ==
    [name |-> item.name, username |-> item.username, title |-> item.title,
     description |-> Get(item, "description"),
     current_pricing_info |->
        IF "currentPricingInfo" \in DOMAIN item /\ item.currentPricingInfo # NoneDict
        THEN PricingInfo_model_validate(item.currentPricingInfo)
        ELSE NoneDict]

\* ActorStoreList.model_validate(items) for items that all validate.
ActorStoreList(items) ==
    [type |-> "ActorStoreList", root |-> [k \in DOMAIN items |-> ActorStore(items[k])]]

-----------------------------------------------------------------------------
(* tools.py, tools_2.py: SearchRelatedActorsTool *)

SearchRelatedActorsInput_unconstrained(args) ==
    IF "search" \notin DOMAIN args
    THEN Raised("ValidationError: SearchRelatedActorsInput", <<>>)
    ELSE Returned([search |-> args.search,
                   limit |-> GetDefault(args, "limit", 10),
                   offset |-> GetDefault(args, "offset", 0)], <<>>)

\* tools.py lines 153-162: the arguments of the tool; search is required,
\* limit has default 10 and gt=0, le=100, offset has default 0 and ge=0.
SearchRelatedActorsInput(args) ==
    LET limit == GetDefault(args, "limit", 10)
        offset == GetDefault(args, "offset", 0)
    IN  IF "search" \notin DOMAIN args \/ ~(limit > 0) \/ ~(limit <= 100)
           \/ ~(offset >= 0)
        THEN Raised("ValidationError: SearchRelatedActorsInput", <<>>)
        ELSE Returned([search |-> args.search, limit |-> limit, offset |-> offset],
                      <<>>)

\* tools_2.py lines 24-33: the same arguments.
tools_2_SearchRelatedActorsInput(args) ==
    LET limit == GetDefault(args, "limit", 10)
        offset == GetDefault(args, "offset", 0)
    IN  IF "search" \notin DOMAIN args \/ ~(limit > 0) \/ ~(limit <= 100)
           \/ ~(offset >= 0)
        THEN Raised("ValidationError: SearchRelatedActorsInput", <<>>)
        ELSE Returned([search |-> args.search, limit |-> limit, offset |-> offset],
                      <<>>)

\* except Exception as e: raise ValueError(f"Failed to search for Actors
\* related to '{search}': {e}"); message holds the parts of the f-string.
search_failed(search, e, requests) ==
    [exc |-> "ValueError: Failed to search for Actors",
     val |-> None,
     net |-> requests,
     message |-> <<"Failed to search for Actors related to '", search, "': ", e>>]

SearchRelatedActorsTool_run_skips_invalid(env, plat, search, limit, offset) ==
    LET tok == get_apify_token(env)
        req == <<[call |-> "store.list", search |-> search, limit |-> limit,
                  offset |-> offset]>>
    IN  IF tok.exc # "none" THEN search_failed(search, tok.exc, <<>>)
        ELSE IF plat.store.transport # "ok"
        THEN search_failed(search, plat.store.transport, req)
        ELSE LET search_results == plat.store.items IN
             LET valid == [k \in DOMAIN search_results |->
                              ActorStore_valid(search_results[k])]
             IN  Returned(ActorStoreList(Filter(search_results, valid)), req)

SearchRelatedActorsTool_run_raises_on_empty(env, plat, search, limit, offset) ==
    LET tok == get_apify_token(env)
        req == <<[call |-> "store.list", search |-> search, limit |-> limit,
                  offset |-> offset]>>
    IN  IF tok.exc # "none" THEN search_failed(search, tok.exc, <<>>)
        ELSE IF plat.store.transport # "ok"
        THEN search_failed(search, plat.store.transport, req)
        ELSE LET search_results == plat.store.items IN
             IF search_results = <<>>
             THEN search_failed(search, "ValidationError: ActorStoreList", req)
             ELSE
             IF \E k \in DOMAIN search_results : ~ActorStore_valid(search_results[k])
             THEN search_failed(search, "ValidationError: ActorStoreList", req)
             ELSE Returned(ActorStoreList(search_results), req)

\* tools.py lines 175-185.
SearchRelatedActorsTool_run(env, plat, search, limit, offset) ==
    LET tok == get_apify_token(env)
        req == <<[call |-> "store.list", search |-> search, limit |-> limit,
                  offset |-> offset]>>
    IN  IF tok.exc # "none" THEN search_failed(search, tok.exc, <<>>)
        ELSE IF plat.store.transport # "ok"
        THEN search_failed(search, plat.store.transport, req)
        ELSE LET search_results == plat.store.items IN
             IF \E k \in DOMAIN search_results : ~ActorStore_valid(search_results[k])
             THEN search_failed(search, "ValidationError: ActorStoreList", req)
             ELSE Returned(ActorStoreList(search_results), req)

\* tools_2.py lines 46-56.
tools_2_SearchRelatedActorsTool_run(env, plat, search, limit, offset) ==
    LET tok == get_apify_token(env)
        req == <<[call |-> "store.list", search |-> search, limit |-> limit,
                  offset |-> offset]>>
    IN  IF tok.exc # "none" THEN search_failed(search, tok.exc, <<>>)
        ELSE IF plat.store.transport # "ok"
        THEN search_failed(search, plat.store.transport, req)
        ELSE LET search_results == plat.store.items IN
             IF \E k \in DOMAIN search_results : ~ActorStore_valid(search_results[k])
             THEN search_failed(search, "ValidationError: ActorStoreList", req)
             ELSE Returned(ActorStoreList(search_results), req)

\* _run(search) of tools.py: limit and offset take the defaults of line 175.
Invoke_SearchRelatedActorsTool(search) ==
    /\ tool = "idle"
    /\ tool' = "tools.SearchRelatedActorsTool"
    /\ result' = [search |-> search]
                    @@ SearchRelatedActorsTool_run(APIFY_TOKEN, platform, search, 10, 0)
    /\ UNCHANGED <<worldVars, mainVars>>

\* _run(search) of tools_2.py: limit and offset take the defaults of line 46.
Invoke_tools_2_SearchRelatedActorsTool(search) ==
    /\ tool = "idle"
    /\ tool' = "tools_2.SearchRelatedActorsTool"
    /\ result' = [search |-> search]
                    @@ tools_2_SearchRelatedActorsTool_run(APIFY_TOKEN, platform, search, 10, 0)
    /\ UNCHANGED <<worldVars, mainVars>>

\* An agent calls the tool 'search_related_actors' of tools.py with a
\* dict of arguments: the arguments are validated against args_schema
\* (line 173) and handed to _run.
Call_search_related_actors(args) ==
    /\ tool = "idle"
    /\ tool' = "tools.search_related_actors"
    /\ LET input == SearchRelatedActorsInput(args) IN
       result' = [args |-> args]
                    @@ IF input.exc # "none" THEN input
                       ELSE SearchRelatedActorsTool_run(
                              APIFY_TOKEN, platform, input.val.search,
                              input.val.limit, input.val.offset)
    /\ UNCHANGED <<worldVars, mainVars>>

\* The same call of the tool of tools_2.py (args_schema at line 44).
Call_tools_2_search_related_actors(args) ==
    /\ tool = "idle"
    /\ tool' = "tools_2.search_related_actors"
    /\ LET input == tools_2_SearchRelatedActorsInput(args) IN
       result' = [args |-> args]
                    @@ IF input.exc # "none" THEN input
                       ELSE tools_2_SearchRelatedActorsTool_run(
                              APIFY_TOKEN, platform, input.val.search,
                              input.val.limit, input.val.offset)
    /\ UNCHANGED <<worldVars, mainVars>>

-----------------------------------------------------------------------------
(* The invocations of the search tool *)

MaxResults == 2

SearchStrings == {"", "web scraper", "web scraper crawler rag llm markdown browser"}

\* Items of the store listing: well-formed ones, one without title, one with
\* a null title, one whose pricing info lacks its model.
StoreItems ==
    {[name |-> "a", username |-> "u", title |-> "T"],
     [name |-> "b", username |-> "u", title |-> "T", description |-> "D",
      currentPricingInfo |-> [pricingModel |-> "FREE"]],
     [name |-> "c", username |-> "u", title |-> "T", currentPricingInfo |-> NoneDict],
     [name |-> "d", username |-> "u"],
     [name |-> "e", username |-> "u", title |-> None],
     [name |-> "f", username |-> "u", title |-> "T",
      currentPricingInfo |-> [pricePerUnitUsd |-> "0.5"]]}

\* What apify_client.store().list(...) does: raises, or returns items.
StoreAnswers ==
    {[transport |-> "ApifyApiError: store list failed", items |-> <<>>]}
    \cup {[transport |-> "ok", items |-> l] : l \in SeqsUpTo(StoreItems, MaxResults)}

\* Argument dicts of a tool call: limit and offset given or left out, in
\* and beyond the bounds of the schema.
SearchArgs ==
    {[search |-> "web scraper"]}
    \cup [search : {"web scraper"}, limit : {0, 1, 100, 101}]
    \cup [search : {"web scraper"}, offset : {-1, 0, 5}]
    \cup [search : {"web scraper"}, limit : {0, 1, 100, 101}, offset : {-1, 0, 5}]
    \cup {[limit |-> 10]}

InitSearch ==
    /\ APIFY_TOKEN \in {"", "apify_api_token"}
    /\ platform \in [actor : {FoundActor}, build : {OkBuild}, store : StoreAnswers]
    /\ now = 0
    /\ IdleMain
    /\ IdleTool

NextSearch ==
    \/ \E search \in SearchStrings : Invoke_SearchRelatedActorsTool(search)
    \/ \E search \in SearchStrings : Invoke_tools_2_SearchRelatedActorsTool(search)
    \/ \E args \in SearchArgs : Call_search_related_actors(args)
    \/ \E args \in SearchArgs : Call_tools_2_search_related_actors(args)

SpecSearch == InitSearch /\ [][NextSearch]_vars

-----------------------------------------------------------------------------
(* Claims about the search tool *)

SearchRan == tool \in {"tools.SearchRelatedActorsTool", "tools_2.SearchRelatedActorsTool"}

\* An item of the listing that ActorStore rejects.
Malformed(item) ==
    \/ \E f \in {"name", "username", "title"} : f \notin DOMAIN item \/ item[f] = None
    \/ /\ "currentPricingInfo" \in DOMAIN item
       /\ item.currentPricingInfo # NoneDict
       /\ "pricingModel" \notin DOMAIN item.currentPricingInfo

SearchFailure ==
    \/ APIFY_TOKEN = ""
    \/ platform.store.transport # "ok"
    \/ \E k \in DOMAIN platform.store.items : Malformed(platform.store.items[k])

\* C17: every failure inside the search tool (missing token, failure of the
\* store listing, an item that does not validate) raises the one ValueError
\* whose message names the search string; a result is returned only when
\* every item validated, and then it holds every item, in order.
C17_SearchFailsAsOneError ==
    SearchRan =>
        /\ SearchFailure =>
              /\ result.exc = "ValueError: Failed to search for Actors"
              /\ result.val = None
              /\ \E k \in DOMAIN result.message : result.message[k] = result.search
        /\ ~SearchFailure =>
              /\ result.exc = "none"
              /\ Len(result.val.root) = Len(platform.store.items)
              /\ \A k \in DOMAIN result.val.root :
                    /\ result.val.root[k].name = platform.store.items[k].name
                    /\ result.val.root[k].title = platform.store.items[k].title

C17_OneItemMalformed ==
    /\ SearchRan
    /\ APIFY_TOKEN # ""
    /\ platform.store.transport = "ok"
    /\ Len(platform.store.items) = 2
    /\ ~Malformed(platform.store.items[1])
    /\ Malformed(platform.store.items[2])
    /\ result.exc # "none"

\* C18: when the store listing yields no matches, the search tool returns an
\* empty ActorStoreList and does not raise.
C18_NoMatchesGiveEmptyList ==
    (SearchRan /\ APIFY_TOKEN # "" /\ platform.store.transport = "ok"
        /\ platform.store.items = <<>>) =>
        /\ result.exc = "none"
        /\ result.val.type = "ActorStoreList"
        /\ result.val.root = <<>>

C18_EmptySearchNoMatches ==
    /\ SearchRan
    /\ APIFY_TOKEN # ""
    /\ platform.store.transport = "ok"
    /\ platform.store.items = <<>>
    /\ result.search = ""
    /\ result.exc = "none"

SearchCalled == tool \in {"tools.search_related_actors",
                          "tools_2.search_related_actors"}

GivenLimit == IF "limit" \in DOMAIN result.args THEN result.args.limit ELSE 10

GivenOffset == IF "offset" \in DOMAIN result.args THEN result.args.offset ELSE 0

\* The summary of one item of the listing.
SummaryOf(summary, item) ==
    /\ summary.name = item.name
    /\ summary.username = item.username
    /\ summary.title = item.title
    /\ summary.description =
          (IF "description" \in DOMAIN item THEN item.description ELSE None)
    /\ IF "currentPricingInfo" \in DOMAIN item /\ item.currentPricingInfo # NoneDict
       THEN summary.current_pricing_info.pricing_model
               = item.currentPricingInfo.pricingModel
       ELSE summary.current_pricing_info = NoneDict

InOrderOneEach ==
    /\ DOMAIN result.val.root = DOMAIN platform.store.items
    /\ \A k \in DOMAIN result.val.root :
          SummaryOf(result.val.root[k], platform.store.items[k])

\* C24: a successful search returns one summary per item of the store
\* listing, in the order of the listing; the one request to the store carries
\* the search string, limit and offset given (10 and 0 when left out), and a
\* call whose limit is outside 1..100 or whose offset is negative is
\* rejected before any request.
C24_OneSummaryPerItemInOrder ==
    /\ SearchRan =>
          /\ result.exc = "none" => InOrderOneEach
          /\ result.net # <<>> =>
                result.net = <<[call |-> "store.list", search |-> result.search,
                                limit |-> 10, offset |-> 0]>>
    /\ SearchCalled =>
          /\ result.exc = "none" => InOrderOneEach
          /\ result.net # <<>> =>
                /\ GivenLimit \in 1..100
                /\ GivenOffset >= 0
                /\ result.net = <<[call |-> "store.list",
                                   search |-> result.args.search,
                                   limit |-> GivenLimit, offset |-> GivenOffset]>>
          /\ (GivenLimit \notin 1..100 \/ GivenOffset < 0) =>
                /\ result.exc = "ValidationError: SearchRelatedActorsInput"
                /\ result.net = <<>>
          /\ (/\ "search" \in DOMAIN result.args
              /\ GivenLimit \in 1..100 /\ GivenOffset >= 0
              /\ APIFY_TOKEN # "") => result.net # <<>>

\* The scenario of C24: limit 100 and offset 5 are given, the listing holds
\* two different items, and both are returned in its order.
C24_TwoItemsWithLimitAndOffset ==
    /\ SearchCalled
    /\ result.args = [search |-> "web scraper", limit |-> 100, offset |-> 5]
    /\ Len(platform.store.items) = 2
    /\ platform.store.items[1].name = "b"
    /\ platform.store.items[2].name = "a"
    /\ result.exc = "none"
    /\ result.val.root[1].name = "b"
    /\ result.val.root[2].name = "a"

\* A call with limit 0 is rejected.
C24_LimitZeroRejected ==
    /\ SearchCalled
    /\ result.args = [search |-> "web scraper", limit |-> 0]
    /\ result.exc = "ValidationError: SearchRelatedActorsInput"

-----------------------------------------------------------------------------
(* The external requests of one invocation, with failures in transport *)

RequestKinds == {"actor.get", "builds/default", "versions.list", "GET", "GET uithub"}

\* Packages of which one kind of request, or none, fails in transport; the
\* versions bundle a text file, or name one repository twice, or are none.
FailingPackages ==
    [actor : {FoundActor},
     build : {BuildResponse([actorDefinition |-> [readme |-> "# Foo"]]),
              BuildResponse([actVersion |-> [gitRepoUrl |-> RepoUrl],
                             actorDefinition |-> [readme |-> "# Foo"]])},
     versions : {<<>>,
                 <<[buildTag |-> "latest",
                    sourceFiles |-> <<[name |-> MainPy, format |-> "text",
                                       content |-> "c"]>>]>>,
                 <<[buildTag |-> "latest", sourceFiles |-> <<>>,
                    gitRepoUrl |-> "https://github.com/acme/bar"],
                   [buildTag |-> "beta", sourceFiles |-> <<>>,
                    gitRepoUrl |-> "https://github.com/acme/bar"]>>},
     status : [RepoUrls -> {200, 404, 500}],
     render : {SampleRender},
     store : {[transport |-> "ApifyApiError: store list failed", items |-> <<>>],
              [transport |-> "ok",
               items |-> <<[name |-> "a", username |-> "u", title |-> "T"]>>]},
     down : {{}} \cup {{k} : k \in RequestKinds}]

InitRequests ==
    /\ APIFY_TOKEN = "apify_api_token"
    /\ platform \in FailingPackages
    /\ now = 0
    /\ IdleMain
    /\ IdleTool

NextRequests ==
    \/ Invoke_tool_get_code_context
    \/ Invoke_tool_get_actor_input_schema
    \/ Invoke_GetActorReadmeTool
    \/ Invoke_GetActorPricingInfoTool
    \/ Invoke_tools_2_GetActorPricingInfoTool
    \/ Invoke_SearchRelatedActorsTool("web scraper")
    \/ Invoke_tools_2_SearchRelatedActorsTool("web scraper")

SpecRequests == InitRequests /\ [][NextRequests]_vars

AdapterRan == tool # "idle"

\* The request failed in transport.
TransportFailed(request) ==
    \/ request.call \in platform.down
    \/ request.call = "store.list" /\ platform.store.transport # "ok"

Occurrences(seq, x) == Cardinality({i \in DOMAIN seq : seq[i] = x})

\* How often one invocation may issue a request: the source-code tool looks
\* the identity up once per helper and lists the versions once per helper,
\* and probes a URL once per occurrence among the candidates.
IssuedAtMost(request) ==
    CASE request.call = "actor.get" -> IF CodeRan THEN 2 ELSE 1
      [] request.call = "versions.list" -> 2
      [] request.call = "GET" -> Occurrences(Candidates, request.target)
      [] OTHER -> 1

FailureIsFinal ==
    \A i \in DOMAIN result.net :
        TransportFailed(result.net[i]) =>
            /\ i = Len(result.net)
            /\ result.exc # "none"
            /\ result.val = None

\* C23 as stated: within one invocation of an adapter no request is issued
\* twice for the same target, and a request that fails in transport is the
\* last one and ends the invocation with an error.
C23_EachRequestAtMostOnce ==
    AdapterRan =>
        /\ \A i \in DOMAIN result.net : Occurrences(result.net, result.net[i]) = 1
        /\ FailureIsFinal

\* C23 as amended: within one invocation of an adapter a request that fails
\* in transport is the last one and ends the invocation with an error and no
\* result; requests are not issued once per target, though: the source-code
\* tool issues the identity lookup by name and the version listing up to
\* twice and probes a URL once per occurrence among the candidates (a probe
\* answered with another status than 200 moves on to the next candidate);
\* every other request of every adapter is issued at most once.
C23_FailureEndsInvocation ==
    AdapterRan =>
        /\ FailureIsFinal
        /\ \A i \in DOMAIN result.net :
              Occurrences(result.net, result.net[i]) <= IssuedAtMost(result.net[i])
        /\ (CodeRan /\ result.exc = "none" /\ result.val.type = "str") =>
              /\ Candidates # <<>> => "GET" \notin platform.down
              /\ \A i \in DOMAIN Candidates : platform.status[Candidates[i]] # 200

\* The scenario of C23: the probes fail in transport; the first probe is the
\* last request of the source-code tool, after two lookups of the identity by
\* name and two listings of the versions, and the tool raises.
C23_ProbeFailsInTransport ==
    /\ CodeRan
    /\ platform.down = {"GET"}
    /\ Len(Candidates) = 3
    /\ result.net[Len(result.net)] = [call |-> "GET", target |-> Candidates[1]]
    /\ Occurrences(result.net, [call |-> "GET", target |-> Candidates[1]]) = 1
    /\ Occurrences(result.net, [call |-> "actor.get", target |-> "acme/foo"]) = 2
    /\ Occurrences(result.net, [call |-> "versions.list", target |-> "ID1"]) = 2
    /\ result.exc = "ConnectionError: GET"

\* A URL named by two versions is probed twice when it does not resolve.
C23_UrlProbedTwice ==
    /\ CodeRan
    /\ platform.down = {}
    /\ Occurrences(result.net, [call |-> "GET",
                                target |-> "https://github.com/acme/bar"]) = 2
    /\ result.exc = "none"

-----------------------------------------------------------------------------
(* main.py: the steps of main() *)

\* Lines 41-52: read the input, merge it over fallback_input, check actorId.
GetInput ==
    /\ pc = "start"
    /\ LET given == IF actor_input.isNone THEN EmptyDict ELSE actor_input.d
           merged == given @@ fallback_input
           id == Get(merged, "actorId")
       IN  /\ actor_id' = id
           /\ IF ~Truthy(id)
              THEN /\ error' = "ValueError: Missing the actorId attribute in the input!"
                   /\ pc' = "failed"
              ELSE /\ error' = error
                   /\ pc' = "input_ok"
    /\ UNCHANGED <<worldVars, toolVars, actor_input, net, github_repo_url,
                   code_quality_remark, agents, tasks, crew, outputs, started,
                   idx, active, calls, dataset>>

ResolveBuild_any_source ==
    /\ pc = "input_ok"
    /\ LET tok == get_apify_token(APIFY_TOKEN)
           build == get_actor_latest_build(APIFY_TOKEN, platform, actor_id)
       IN  IF tok.exc # "none"
           THEN /\ error' = tok.exc
                /\ pc' = "failed"
                /\ UNCHANGED <<net, github_repo_url, code_quality_remark>>
           ELSE IF build.exc # "none"
           THEN /\ error' = build.exc
                /\ pc' = "failed"
                /\ net' = net \o build.net
                /\ UNCHANGED <<github_repo_url, code_quality_remark>>
           ELSE LET url == Get(GetDefault(build.val, "actVersion", EmptyDict),
                               "gitRepoUrl")
                IN  /\ net' = net \o build.net
                    /\ pc' = "build_ok"
                    /\ error' = error
                    /\ IF ~Truthy(url) /\ platform.versions = <<>>
                       THEN /\ github_repo_url' = NOT_PROVIDED
                            /\ code_quality_remark' = NA_REMARK
                       ELSE /\ github_repo_url' = url
                            /\ code_quality_remark' = ""
    /\ UNCHANGED <<worldVars, toolVars, actor_input, actor_id, agents, tasks,
                   crew, outputs, started, idx, active, calls, dataset>>

\* Lines 54-62: the token, the latest build, the repository URL and remark.
ResolveBuild ==
    /\ pc = "input_ok"
    /\ LET tok == get_apify_token(APIFY_TOKEN)
           build == get_actor_latest_build(APIFY_TOKEN, platform, actor_id)
       IN  IF tok.exc # "none"
           THEN /\ error' = tok.exc
                /\ pc' = "failed"
                /\ UNCHANGED <<net, github_repo_url, code_quality_remark>>
           ELSE IF build.exc # "none"
           THEN /\ error' = build.exc
                /\ pc' = "failed"
                /\ net' = net \o build.net
                /\ UNCHANGED <<github_repo_url, code_quality_remark>>
           ELSE LET url == Get(GetDefault(build.val, "actVersion", EmptyDict),
                               "gitRepoUrl")
                IN  /\ net' = net \o build.net
                    /\ pc' = "build_ok"
                    /\ error' = error
                    /\ IF ~Truthy(url)
                       THEN /\ github_repo_url' = NOT_PROVIDED
                            /\ code_quality_remark' = NA_REMARK
                       ELSE /\ github_repo_url' = url
                            /\ code_quality_remark' = ""
    /\ UNCHANGED <<worldVars, toolVars, actor_input, actor_id, agents, tasks,
                   crew, outputs, started, idx, active, calls, dataset>>

\* Lines 67-159: the agents, the five tasks and the crew.
BuildGraph ==
    /\ pc = "build_ok"
    /\ agents' = main_agents
    /\ tasks' = main_tasks(actor_id, github_repo_url, code_quality_remark)
    /\ crew' = main_crew
    /\ outputs' = [t \in TaskVars |-> NoOutput]
    /\ pc' = "built"
    /\ UNCHANGED <<worldVars, toolVars, actor_input, error, net, actor_id,
                   github_repo_url, code_quality_remark, started, idx, active,
                   calls, dataset>>

\* Line 163, crew.kickoff(): the sequential process runs crew.tasks in order.
Kickoff ==
    /\ pc = "built"
    /\ pc' = "running"
    /\ idx' = 1
    /\ UNCHANGED <<worldVars, toolVars, actor_input, error, net, actor_id,
                   github_repo_url, code_quality_remark, agents, tasks, crew,
                   outputs, started, active, calls, dataset>>

CurrentTask == crew.tasks[idx]

\* The crew starts its next task: the task's agent begins to act.
StartTask ==
    /\ pc = "running"
    /\ active = None
    /\ idx <= Len(crew.tasks)
    /\ started' = Append(started, CurrentTask)
    /\ active' = tasks[CurrentTask].agent
    /\ UNCHANGED <<worldVars, toolVars, actor_input, pc, error, net, actor_id,
                   github_repo_url, code_quality_remark, agents, tasks, crew,
                   outputs, idx, calls, dataset>>

\* The code behind each tool object, applied to the arguments of a call.
run_tool(t, env, plat, instant, actor_name, search) ==
    CASE t = "tools.GetActorCodeTool" -> tool_get_code_context(env, plat, actor_name)
      [] t = "tools.GetActorInputSchemaTool"
           -> tool_get_actor_input_schema(env, plat, actor_name)
      [] t = "tools.GetActorReadmeTool" -> GetActorReadmeTool_run(env, plat, actor_name)
      [] t = "tools.SearchRelatedActorsTool"
           -> SearchRelatedActorsTool_run(env, plat, search, 10, 0)
      [] t = "tools_2.SearchRelatedActorsTool"
           -> tools_2_SearchRelatedActorsTool_run(env, plat, search, 10, 0)
      [] t = "tools.GetActorPricingInfoTool"
           -> GetActorPricingInfoTool_run(env, plat, instant, actor_name)
      [] t = "tools_2.GetActorPricingInfoTool"
           -> tools_2_GetActorPricingInfoTool_run(env, plat, instant, actor_name)

\* The acting agent invokes one of the tools of its Agent object, for the
\* actor its task names.  main() has no handler around crew.kickoff(); an
\* exception of a tool does not leave the crew: the agent is given the
\* error as the tool's answer and goes on.
ToolCall(t) ==
    /\ pc = "running"
    /\ active # None
    /\ t \in agents[active].tools
    /\ \E search \in SearchStrings :
          LET answer == run_tool(t, APIFY_TOKEN, platform, now,
                                 tasks[CurrentTask].actor, search)
          IN  calls' = calls \cup {<<active, t, answer.exc>>}
    /\ UNCHANGED <<worldVars, toolVars, actor_input, pc, error, net, actor_id,
                   github_repo_url, code_quality_remark, agents, tasks, crew,
                   outputs, started, idx, active, dataset>>

\* An agent created with allow_delegation=True hands work to a crew agent.
Delegate(a) ==
    /\ pc = "running"
    /\ active # None
    /\ active = tasks[CurrentTask].agent
    /\ agents[active].allow_delegation
    /\ a \in crew.agents \ {active}
    /\ active' = a
    /\ UNCHANGED <<worldVars, toolVars, actor_input, pc, error, net, actor_id,
                   github_repo_url, code_quality_remark, agents, tasks, crew,
                   outputs, started, idx, calls, dataset>>

\* The coworker answers; the task's agent acts again.
DelegateReturn ==
    /\ pc = "running"
    /\ active # None
    /\ active # tasks[CurrentTask].agent
    /\ active' = tasks[CurrentTask].agent
    /\ UNCHANGED <<worldVars, toolVars, actor_input, pc, error, net, actor_id,
                   github_repo_url, code_quality_remark, agents, tasks, crew,
                   outputs, started, idx, calls, dataset>>

\* The task's agent gives its answer: the task has an output.
FinishTask ==
    /\ pc = "running"
    /\ active # None
    /\ active = tasks[CurrentTask].agent
    /\ outputs' = [outputs EXCEPT ![CurrentTask] = "raw report"]
    /\ idx' = idx + 1
    /\ active' = None
    /\ UNCHANGED <<worldVars, toolVars, actor_input, pc, error, net, actor_id,
                   github_repo_url, code_quality_remark, agents, tasks, crew,
                   started, calls, dataset>>

PushData_while_running ==
    /\ pc = "running"
    /\ dataset' = Append(dataset,
                         [actorId |-> actor_id,
                          response |-> outputs[crew.tasks[Len(crew.tasks)]]])
    /\ pc' = "done"
    /\ UNCHANGED <<worldVars, toolVars, actor_input, error, net, actor_id,
                   github_repo_url, code_quality_remark, agents, tasks, crew,
                   outputs, started, idx, active, calls>>

\* Lines 164-180: kickoff returned; charge and push {actorId, response}.
PushData ==
    /\ pc = "running"
    /\ active = None
    /\ idx > Len(crew.tasks)
    /\ dataset' = Append(dataset,
                         [actorId |-> actor_id,
                          response |-> outputs[crew.tasks[Len(crew.tasks)]]])
    /\ pc' = "done"
    /\ UNCHANGED <<worldVars, toolVars, actor_input, error, net, actor_id,
                   github_repo_url, code_quality_remark, agents, tasks, crew,
                   outputs, started, idx, active, calls>>

-----------------------------------------------------------------------------
(* The runs of main() *)

\* The builds of the runs: every answer of BuildAnswers, and builds with a
\* README, with and without a repository URL.
MainBuilds ==
    BuildAnswers
    \cup {BuildResponse([actorDefinition |-> [readme |-> "# Foo"]]),
          BuildResponse([actVersion |-> [gitRepoUrl |-> RepoUrl],
                         actorDefinition |-> [readme |-> "# Foo"]])}

\* The store listing of the runs: it fails, or it lists one actor.
MainStores ==
    {[transport |-> "ApifyApiError: store list failed", items |-> <<>>],
     [transport |-> "ok",
      items |-> <<[name |-> "a", username |-> "u", title |-> "T"]>>]}

\* Packages with a version that bundles a text file and names a repository.
MainVersionedPackages ==
    [actor : {FoundActor},
     build : {BuildResponse([actorDefinition |-> [readme |-> "# Foo"]]),
              BuildResponse([actVersion |-> [gitRepoUrl |-> RepoUrl],
                             actorDefinition |-> [readme |-> "# Foo"]])},
     versions : {<<[buildTag |-> "latest",
                    sourceFiles |-> <<[name |-> MainPy, format |-> "text",
                                       content |-> "c"]>>,
                    gitRepoUrl |-> "https://github.com/acme/bar"]>>},
     status : {[u \in RepoUrls |-> 200]}, render : {SampleRender},
     store : {[transport |-> "ok",
               items |-> <<[name |-> "a", username |-> "u", title |-> "T"]>>]}]

Init ==
    /\ APIFY_TOKEN \in {"", "apify_api_token"}
    /\ platform \in [actor : ActorAnswers, build : MainBuilds, versions : {<<>>},
                      status : {[u \in RepoUrls |-> 200]}, render : {SampleRender},
                      store : MainStores]
                     \cup MainVersionedPackages
    /\ now = 0
    /\ actor_input \in Inputs
    /\ InitMain
    /\ IdleTool

Next ==
    \/ GetInput
    \/ ResolveBuild
    \/ BuildGraph
    \/ Kickoff
    \/ StartTask
    \/ \E t \in Tools : ToolCall(t)
    \/ \E a \in AgentVars : Delegate(a)
    \/ DelegateReturn
    \/ FinishTask
    \/ PushData

Spec == Init /\ [][Next]_vars

-----------------------------------------------------------------------------
(* The bound tool sets of section 4.4 of the design, by adapter *)

AdapterOf(t) ==
    CASE t = "tools.GetActorCodeTool" -> "SourceCode"
      [] t = "tools.GetActorInputSchemaTool" -> "InputSchema"
      [] t = "tools.GetActorReadmeTool" -> "Documentation"
      [] t \in {"tools.SearchRelatedActorsTool", "tools_2.SearchRelatedActorsTool"}
           -> "Search"
      [] t \in {"tools.GetActorPricingInfoTool", "tools_2.GetActorPricingInfoTool"}
           -> "Pricing"

AdaptersOf(agent) == {AdapterOf(t) : t \in agent.tools}

BoundSet ==
    [code_quality_agent |-> {"SourceCode"},
     actor_quality_agent |-> {"InputSchema", "Documentation"},
     uniqueness_check_agent |-> {"Documentation", "Search"},
     pricing_check_agent |-> {"Pricing", "Search"}]

GraphBuilt == pc \in {"built", "running", "done"}

-----------------------------------------------------------------------------
(* Claims about main() and the agents *)

\* C1: the final (aggregation) task does not start until each of the four
\* leaf tasks has been executed and has produced a result.
C1_FinalAfterLeaves ==
    "final_task" \in Range(started) =>
        \A l \in LeafTasks : l \in Range(started) /\ outputs[l] # NoOutput

\* C2: the task graph built by main() has exactly five tasks: four leaf tasks
\* without upstream context, each bound to a distinct evaluator agent, and one
\* final task bound to the inspector whose context is exactly the four leaves.
C2_TaskGraphShape ==
    GraphBuilt =>
        LET leaves == {t \in DOMAIN tasks : tasks[t].context = {}}
            finals == DOMAIN tasks \ leaves
        IN  /\ Cardinality(DOMAIN tasks) = 5
            /\ Cardinality(leaves) = 4
            /\ Cardinality({tasks[t].agent : t \in leaves}) = 4
            /\ Cardinality({agents[tasks[t].agent] : t \in leaves}) = 4
            /\ \A t \in leaves : tasks[t].agent \in DOMAIN BoundSet
            /\ \A t \in finals : /\ tasks[t].agent = "inspector_agent"
                                 /\ tasks[t].context = leaves

C2_GraphBuilt == pc = "built" /\ DOMAIN tasks # {}

\* C3: an input that lacks the required package-name field makes the run fail
\* with the input-validation error before any external call is attempted.
C3_MissingActorIdFails ==
    (pc # "start" /\ (actor_input.isNone \/ "actorId" \notin DOMAIN actor_input.d)) =>
        /\ error = "ValueError: Missing the actorId attribute in the input!"
        /\ net = <<>>

\* C9: every adapter call is made by a role whose bound tool set contains the
\* adapter, and the tool lists of both agent definition files are the bound
\* sets: code quality -> source code; documentation quality -> input schema
\* and README; uniqueness -> README and search; pricing -> pricing and search.
C9_CallsWithinBoundSet ==
    /\ \A c \in calls :
          c[1] \in DOMAIN BoundSet => AdapterOf(c[2]) \in BoundSet[c[1]]
    /\ GraphBuilt => \A a \in DOMAIN BoundSet : AdaptersOf(agents[a]) = BoundSet[a]
    /\ AdaptersOf(create_code_quality_agent) = BoundSet.code_quality_agent
    /\ AdaptersOf(create_actor_definition_quality_agent) = BoundSet.actor_quality_agent
    /\ AdaptersOf(agents_create_uniqueness_check_agent) = BoundSet.uniqueness_check_agent
    /\ AdaptersOf(agents_create_pricing_check_agent) = BoundSet.pricing_check_agent
    /\ AdaptersOf(agents2_create_uniqueness_check_agent) = BoundSet.uniqueness_check_agent
    /\ AdaptersOf(agents2_create_pricing_check_agent) = BoundSet.pricing_check_agent

C9_EveryRoleCalled ==
    /\ pc = "done"
    /\ \A a \in DOMAIN BoundSet : \E c \in calls : c[1] = a

C28_PolicyFromBuildUrlAlone ==
    GraphBuilt =>
        /\ \A t \in DOMAIN tasks \ {"code_quality_task"} : tasks[t].remark = ""
        /\ IF Truthy(BuildRepoUrl)
           THEN /\ tasks.code_quality_task.remark = ""
                /\ \A t \in DOMAIN tasks : tasks[t].url = BuildRepoUrl
           ELSE /\ tasks.code_quality_task.remark =
                     "IF THE GITHUB REPO URL IS NOT PROVIDED, GRADE THE CODE QUALITY AS 'N/A'."
                /\ \A t \in DOMAIN tasks :
                      tasks[t].url =
                        "GITHUB REPO URL IS NOT PROVIDED, SKIP ALL CHEKS AND TOOLS THAT REQUIRE IT."

\* The scenario of C28: the build names no repository, the latest version
\* bundles a text file and names one, and the graph carries the remark.
C28_VersionHasCodeBuildHasNoUrl ==
    /\ GraphBuilt
    /\ ~Truthy(BuildRepoUrl)
    /\ Len(platform.versions) = 1
    /\ Truthy(Get(platform.versions[1], "gitRepoUrl"))
    /\ platform.versions[1].sourceFiles # <<>>
    /\ DOMAIN tasks = {"code_quality_task", "actor_quality_task",
                       "uniqueness_task", "pricing_task", "final_task"}
    /\ tasks.code_quality_task.remark # ""

-----------------------------------------------------------------------------
(* Claims about failures and the pushed record *)

\* Some tool call of the run raised.
ToolFailed == \E c \in calls : c[3] # "none"

\* C11: a tool call that raises does not abort the run; the failure goes into
\* the report of the leaf task concerned, the other leaf tasks are evaluated
\* all the same, and the run reaches the final task and pushes its report.
C11_ToolFailureAbsorbed ==
    ToolFailed =>
        /\ pc # "failed"
        /\ error = "none"
        /\ pc = "done" =>
              /\ Len(dataset) = 1
              /\ outputs.final_task # NoOutput
              /\ \A l \in LeafTasks : l \in Range(started) /\ outputs[l] # NoOutput

\* The input names the package.
InputNamesActor ==
    /\ ~actor_input.isNone
    /\ Truthy(Get(actor_input.d, "actorId"))

PastResolution == pc \notin {"start", "input_ok"}

\* C12: when the identity resolution or the fetch of the latest build fails
\* (actor not found, actor without id, malformed build response), the run
\* aborts with that failure: no agent, task or crew is created, nothing is
\* kicked off and nothing is pushed.
C12_ResolutionFailureAborts ==
    (PastResolution /\ Truthy(actor_id) /\ APIFY_TOKEN # ""
        /\ (~IdentityResolves \/ ~WellFormedBuild)) =>
        /\ pc = "failed"
        /\ error \in {"ValueError: Actor not found",
                      "ValueError: Failed to get the Actor object ID",
                      "TypeError: Failed to get the latest build",
                      "ValueError: Failed to get the latest build data",
                      "TypeError: Received invalid data for the latest build"}
        /\ agents = EmptyDict
        /\ tasks = EmptyDict
        /\ crew = NoCrew
        /\ started = <<>>
        /\ calls = {}
        /\ dataset = <<>>

C12_ActorNotFound ==
    /\ InputNamesActor
    /\ APIFY_TOKEN # ""
    /\ ~platform.actor.found
    /\ pc = "failed"
    /\ error = "ValueError: Actor not found"

NoCodePackage ==
    /\ WellFormedBuild
    /\ ~Truthy(Get(GetDefault(platform.build.data, "actVersion", EmptyDict),
                   "gitRepoUrl"))
    /\ \A k \in DOMAIN platform.versions :
          /\ ~Truthy(Get(platform.versions[k], "gitRepoUrl"))
          /\ GetDefault(platform.versions[k], "sourceFiles", <<>>) = <<>>

\* C14: for a package with no repository URL and no bundled source the run
\* completes: the code-quality task carries the instruction to grade N/A and
\* is evaluated, the documentation task is evaluated as usual, and a record
\* is pushed.
C14_NoCodeGradesNA ==
    /\ (NoCodePackage /\ GraphBuilt) =>
          /\ pc # "failed"
          /\ tasks.code_quality_task.remark = NA_REMARK
          /\ tasks.code_quality_task.url = NOT_PROVIDED
    /\ (NoCodePackage /\ pc = "done") =>
          /\ Len(dataset) = 1
          /\ outputs.code_quality_task # NoOutput
          /\ outputs.actor_quality_task # NoOutput

\* C20: with APIFY_TOKEN unset or empty get_apify_token raises and the run
\* aborts with that error: main() issues no platform or build request, runs
\* no tool and pushes nothing.
C20_MissingTokenAborts ==
    APIFY_TOKEN = "" =>
        /\ get_apify_token(APIFY_TOKEN).exc
              = "ValueError: APIFY_TOKEN environment variable is not set"
        /\ net = <<>>
        /\ calls = {}
        /\ dataset = <<>>
        /\ pc \in {"start", "input_ok", "failed"}
        /\ (pc = "failed" /\ Truthy(actor_id)) =>
              error = "ValueError: APIFY_TOKEN environment variable is not set"

C20_AbortedWithoutToken ==
    /\ APIFY_TOKEN = ""
    /\ InputNamesActor
    /\ pc = "failed"
    /\ error = "ValueError: APIFY_TOKEN environment variable is not set"

====
